---- MODULE Spec2Model ----
(***************************************************************************)
(* Meal & nutrient coverage engine of midwAIfe (src/app/meals/service.py)  *)
(* over the storage helper src/app/db/pg_database.py.                      *)
(*                                                                         *)
(* The relational tables are sets of rows.  Every execute_query call is    *)
(* one atomic, separately committed statement (pg_database.py:57-81), so   *)
(* a service method is a short program of statements; `pc` holds the       *)
(* position of each request inside its method.                             *)
(***************************************************************************)
EXTENDS Integers, Sequences, FiniteSets, TLC

\* ------------------------------------------------------------------ bounds
MaxLen == 2          \* longest food id list handed to upsert_meal
MaxMealId == 2       \* number of meal header rows ever inserted
MaxItemId == 3       \* number of meal_items rows ever inserted

\* ------------------------------------------------------------ input domains
Procs == {1, 2}
FoodIds == {"A", "B", "C"}
MealIds == 1..MaxMealId
NULL == "NULL"
\* A slot is <<user_id, log_date, meal_type>>.
OneSlot == {<<"u1", 1, "Breakfast">>}
DaySlots == {<<"u1", 1, "Breakfast">>, <<"u1", 1, "Lunch">>}

RECURSIVE SeqsUpTo(_, _)
SeqsUpTo(S, n) ==
    IF n = 0 THEN {<<>>}
    ELSE LET shorter == SeqsUpTo(S, n - 1)
         IN  shorter \cup {Append(s, x) : s \in {t \in shorter : Len(t) = n - 1}, x \in S}

FoodLists(F) == SeqsUpTo(F, MaxLen)

VARIABLES
    meals,          \* table meals: rows [id, user_id, log_date, day_of_week, meal_type, notes]
    items,          \* table meal_items: rows [id, meal_id, food_id, sort_order]
    foods,          \* table foods: rows [id, name, is_safe_pregnancy, warning_message]
    food_nutrients, \* food_nutrients joined with nutrients: rows [food_id, name, is_present]
    nextMealId,     \* next fresh meals.id
    nextItemId,     \* next fresh meal_items.id
    pc,             \* per request: position inside the service method
    op,             \* per request: the method called and its arguments
    loc,            \* per request: the method's local variables
    before,         \* per request: what the call found (its target meal, the previous call)
    sawDone,        \* per request: the requests whose last call had returned when this call began
    issued,         \* per request: the execute_query calls of its call, in order
    ret,            \* per request: what the call gave its caller (a value or the exception)
    pool,           \* the connection pool: connections checked out, and how many of them by other requests
    chat_messages,  \* table chat_messages: rows [id, user_id, session_id, role, content, message_date, is_greeting]
    daily_logs      \* table daily_logs: rows [id, user_id, log_date, sleep, symptoms]

db == <<meals, items, nextMealId, nextItemId>>
catalog == <<foods, food_nutrients>>
observed == <<issued, ret>>
rest == <<pool, chat_messages, daily_logs>>
Tables == [meals |-> meals, items |-> items, nextMealId |-> nextMealId, nextItemId |-> nextItemId]
vars == <<meals, items, foods, food_nutrients, nextMealId, nextItemId,
          pc, op, loc, before, sawDone, issued, ret, pool, chat_messages, daily_logs>>

\* ------------------------------------------------------- the food catalog
\* A small catalog: the rows of foods, and of food_nutrients JOIN nutrients, that
\* the reads join to.
SeedFoods ==
    { [id |-> "A", name |-> "Oatmeal", is_safe_pregnancy |-> TRUE, warning_message |-> ""],
      [id |-> "B", name |-> "Spinach Salad", is_safe_pregnancy |-> TRUE, warning_message |-> NULL],
      [id |-> "C", name |-> "Brie", is_safe_pregnancy |-> FALSE, warning_message |-> "unpasteurised"],
      [id |-> "L", name |-> "Lentil Soup", is_safe_pregnancy |-> TRUE, warning_message |-> "reheat well"] }

SeedFoodNutrients ==
    { [food_id |-> "A", name |-> "iron", is_present |-> TRUE],
      [food_id |-> "B", name |-> "iron", is_present |-> TRUE],
      [food_id |-> "B", name |-> "calcium", is_present |-> TRUE],
      [food_id |-> "B", name |-> "folate", is_present |-> FALSE],
      [food_id |-> "B", name |-> "vitamin_d", is_present |-> TRUE],
      [food_id |-> "L", name |-> "folate", is_present |-> TRUE],
      [food_id |-> "L", name |-> "protein", is_present |-> TRUE] }

\* --------------------------------------------------------- SQL statements
\* Each operator is one statement of service.py as a function of the tables.

MealOfKey(ms, u, d, t) ==
    {m \in ms : m.user_id = u /\ m.log_date = d /\ m.meal_type = t}

\* Mutant: a plain INSERT, without the ON CONFLICT clause.
UpsertHeaderInsertOnly(ms, nid, u, d, dow, t) ==
    [ meals |-> ms \cup {[id |-> nid, user_id |-> u, log_date |-> d,
                          day_of_week |-> dow, meal_type |-> t, notes |-> NULL]},
      id |-> nid,
      next |-> nid + 1 ]

\* Mutant: on conflict the row is replaced by a new one (REPLACE semantics).
UpsertHeaderReplace(ms, nid, u, d, dow, t) ==
    [ meals |-> (ms \ MealOfKey(ms, u, d, t))
                 \cup {[id |-> nid, user_id |-> u, log_date |-> d,
                        day_of_week |-> dow, meal_type |-> t, notes |-> NULL]},
      id |-> nid,
      next |-> nid + 1 ]

\* Mutant: on conflict the notes are reset too.
UpsertHeaderClearsNotes(ms, nid, u, d, dow, t) ==
    IF MealOfKey(ms, u, d, t) # {}
    THEN [ meals |-> {IF m \in MealOfKey(ms, u, d, t)
                      THEN [m EXCEPT !.day_of_week = dow, !.notes = NULL] ELSE m : m \in ms},
           id |-> (CHOOSE m \in MealOfKey(ms, u, d, t) : TRUE).id,
           next |-> nid ]
    ELSE [ meals |-> ms \cup {[id |-> nid, user_id |-> u, log_date |-> d,
                               day_of_week |-> dow, meal_type |-> t, notes |-> NULL]},
           id |-> nid,
           next |-> nid + 1 ]

\* INSERT INTO meals ... ON CONFLICT (user_id, log_date, meal_type)
\* DO UPDATE SET day_of_week = EXCLUDED.day_of_week ... RETURNING id

UpsertHeader(ms, nid, u, d, dow, t) ==
    IF MealOfKey(ms, u, d, t) # {}
    THEN [ meals |-> {IF m \in MealOfKey(ms, u, d, t)
                      THEN [m EXCEPT !.day_of_week = dow] ELSE m : m \in ms},
           id |-> (CHOOSE m \in MealOfKey(ms, u, d, t) : TRUE).id,
           next |-> nid ]
    ELSE [ meals |-> ms \cup {[id |-> nid, user_id |-> u, log_date |-> d,
                               day_of_week |-> dow, meal_type |-> t, notes |-> NULL]},
           id |-> nid,
           next |-> nid + 1 ]

\* Mutant: only the first item of the meal is deleted.
DeleteItemsOfMealFirst(its, mid) == {i \in its : ~(i.meal_id = mid /\ i.sort_order = 0)}

\* Mutant: the DELETE is left out.
DeleteItemsOfMealNone(its, mid) == its

\* DELETE FROM meal_items WHERE meal_id = %s
DeleteItemsOfMeal(its, mid) == {i \in its : i.meal_id # mid}

\* Mutant: the sort index is not stored.
InsertItemNoOrder(its, iid, mid, f, so) ==
    its \cup {[id |-> iid, meal_id |-> mid, food_id |-> f, sort_order |-> 0]}

\* INSERT INTO meal_items (meal_id, food_id, sort_order) VALUES (%s, %s, %s)
InsertItem(its, iid, mid, f, so) ==
    its \cup {[id |-> iid, meal_id |-> mid, food_id |-> f, sort_order |-> so]}

SetMax(S) == CHOOSE x \in S : \A y \in S : y <= x

\* Mutant: COUNT(*) in place of MAX(sort_order) + 1.
NextOrderCount(its, mid) == Cardinality({j \in its : j.meal_id = mid})

\* SELECT COALESCE(MAX(sort_order), -1) + 1 FROM meal_items WHERE meal_id = %s
NextOrder(its, mid) ==
    LET orders == {i.sort_order : i \in {j \in its : j.meal_id = mid}}
    IN  (IF orders = {} THEN -1 ELSE SetMax(orders)) + 1

\* Mutant: the food_id condition is left out.
DeleteItemOfFoodWholeMeal(its, mid, f) == {i \in its : i.meal_id # mid}

\* DELETE FROM meal_items WHERE meal_id = %s AND food_id = %s
DeleteItemOfFood(its, mid, f) == {i \in its : ~(i.meal_id = mid /\ i.food_id = f)}

\* Mutant: the DELETE matches no row.
DeleteMealRowNone(ms, mid) == ms

\* DELETE FROM meals WHERE id = %s
DeleteMealRow(ms, mid) == {m \in ms : m.id # mid}

\* What the schema does to the meal_items rows of a deleted meal: with
\* ON DELETE CASCADE they go with it, without it they stay behind.  The schema
\* is not part of the service; both outcomes are kept.
ItemsAfterMealDelete(its, mid, casc) ==
    IF casc THEN {i \in its : i.meal_id # mid} ELSE its

\* ------------------------------------------------------------ reading
\* Python's None for a missing Meal, and the tri-state Optional[bool].
None == [none |-> TRUE]
TriTrue == "True"
TriFalse == "False"
TriNone == "None"

\* str(row['meal_date']): the date printed as text.
DateKey(d) == <<"str", d>>

\* Text order of the meal_type labels (ORDER BY m.meal_type).
TypeRank(t) ==
    CASE t = "Aperitif" -> 0
      [] t = "Breakfast" -> 1
      [] t = "Brunch" -> 2
      [] t = "Dinner" -> 3
      [] t = "Lunch" -> 4
      [] t = "Snack 1" -> 5
      [] t = "Snack 2" -> 6
      [] t = "dinner" -> 7

\* FROM meals m LEFT JOIN meal_items mi ... LEFT JOIN foods f ...
\* WHERE m.user_id = %s AND m.log_date >= %s AND m.log_date <= %s
JoinRow(m, i, f) ==
    [meal_id |-> m.id, meal_date |-> m.log_date, day_of_week |-> m.day_of_week,
     meal_type |-> m.meal_type, meal_notes |-> m.notes,
     meal_item_id |-> i.id, sort_order |-> i.sort_order,
     id |-> f.id, name |-> f.name, is_safe_pregnancy |-> f.is_safe_pregnancy,
     warning_message |-> f.warning_message]

\* A meal without items joins to one row whose item columns are NULL (0 stands
\* for the NULL of an integer column: item ids start at 1).
NullItem == [id |-> 0, sort_order |-> 0]
NullFood == [id |-> NULL, name |-> NULL, is_safe_pregnancy |-> NULL, warning_message |-> NULL]

\* Mutant: JOIN in place of LEFT JOIN.
JoinedRowsInner(ms, its, fs, u, s, e) ==
    LET sel == {m \in ms : m.user_id = u /\ m.log_date >= s /\ m.log_date <= e}
        of(m) == {i \in its : i.meal_id = m.id}
        food(i) == IF \E f \in fs : f.id = i.food_id
                   THEN CHOOSE f \in fs : f.id = i.food_id
                   ELSE NullFood
    IN  UNION {{JoinRow(m, i, food(i)) : i \in of(m)} : m \in sel}

\* Mutant: the WHERE clause does not test m.user_id.
JoinedRowsAnyUser(ms, its, fs, u, s, e) ==
    LET sel == {m \in ms : m.log_date >= s /\ m.log_date <= e}
        of(m) == {i \in its : i.meal_id = m.id}
        food(i) == IF \E f \in fs : f.id = i.food_id
                   THEN CHOOSE f \in fs : f.id = i.food_id
                   ELSE NullFood
    IN  UNION {IF of(m) = {} THEN {JoinRow(m, NullItem, NullFood)}
               ELSE {JoinRow(m, i, food(i)) : i \in of(m)} : m \in sel}

JoinedRows(ms, its, fs, u, s, e) ==
    LET sel == {m \in ms : m.user_id = u /\ m.log_date >= s /\ m.log_date <= e}
        of(m) == {i \in its : i.meal_id = m.id}
        food(i) == IF \E f \in fs : f.id = i.food_id
                   THEN CHOOSE f \in fs : f.id = i.food_id
                   ELSE NullFood
    IN  UNION {IF of(m) = {} THEN {JoinRow(m, NullItem, NullFood)}
               ELSE {JoinRow(m, i, food(i)) : i \in of(m)} : m \in sel}

\* Mutant: ORDER BY m.log_date, m.meal_type only.
RowBeforeNoSortOrder(a, b) ==
    \/ a.meal_date < b.meal_date
    \/ /\ a.meal_date = b.meal_date
       /\ TypeRank(a.meal_type) < TypeRank(b.meal_type)

\* ORDER BY m.log_date, m.meal_type, mi.sort_order: a strictly before b.
RowBefore(a, b) ==
    \/ a.meal_date < b.meal_date
    \/ /\ a.meal_date = b.meal_date
       /\ TypeRank(a.meal_type) < TypeRank(b.meal_type)
    \/ /\ a.meal_date = b.meal_date
       /\ a.meal_type = b.meal_type
       /\ a.meal_item_id # 0
       /\ (b.meal_item_id = 0 \/ a.sort_order < b.sort_order)

\* Every order in which the database may return the rows: rows the ORDER BY
\* does not separate come in any order.
RECURSIVE Orderings(_)
Orderings(R) ==
    IF R = {} THEN {<<>>}
    ELSE UNION {{<<r>> \o t : t \in Orderings(R \ {r})} :
                r \in {x \in R : ~\E y \in R : RowBefore(y, x)}}

\* _get_food_nutrients_map (service.py:309-330): food id -> names of its
\* nutrients marked present; a food with none has no entry.
GetFoodNutrientsMap(fn, food_ids) ==
    LET present(f) == {r.name : r \in {q \in fn : q.food_id = f /\ q.is_present}}
    IN  [f \in {x \in food_ids : present(x) # {}} |-> present(f)]

\* nutrients_map.get(id, [])
MapGet(map, id) == IF id \in DOMAIN map THEN map[id] ELSE {}

\* bool(x) of a nullable text
Truthy(x) == x \notin {NULL, ""}

\* Mutant: the flag is a plain membership test.
TriStateNeverUnknown(b, nutrients) == IF b THEN TriTrue ELSE TriFalse

\* 'name' in nutrients if nutrients else None (service.py:296-298)
TriState(b, nutrients) == IF nutrients = {} THEN TriNone ELSE IF b THEN TriTrue ELSE TriFalse

\* Mutant: hasWarnings looks at is_safe_pregnancy only.
MapFoodItemSafeOnly(row, nutrients) ==
    [id |-> row.id,
     name |-> row.name,
     containsMicronutrients |->
        [calcium |-> "calcium" \in nutrients,
         iron |-> "iron" \in nutrients,
         folicAcid |-> "folate" \in nutrients,
         protein |-> "protein" \in nutrients,
         vitaminD |-> TriState("vitamin_d" \in nutrients, nutrients),
         omega3 |-> TriState("dha" \in nutrients, nutrients),
         fiber |-> TriState("fiber" \in nutrients, nutrients)],
     hasWarnings |-> ~row.is_safe_pregnancy]

\* _map_food_item (service.py:281-307)
MapFoodItem(row, nutrients) ==
    [id |-> row.id,
     name |-> row.name,
     containsMicronutrients |->
        [calcium |-> "calcium" \in nutrients,
         iron |-> "iron" \in nutrients,
         folicAcid |-> "folate" \in nutrients,
         protein |-> "protein" \in nutrients,
         vitaminD |-> TriState("vitamin_d" \in nutrients, nutrients),
         omega3 |-> TriState("dha" \in nutrients, nutrients),
         fiber |-> TriState("fiber" \in nutrients, nutrients)],
     hasWarnings |-> (~row.is_safe_pregnancy) \/ Truthy(row.warning_message)]

\* MicronutrientPresence() (models.py:8-15)
DefaultPresence ==
    [calcium |-> FALSE, iron |-> FALSE, folicAcid |-> FALSE, protein |-> FALSE,
     vitaminD |-> TriNone, omega3 |-> TriNone, fiber |-> TriNone]

\* Mutant: the label is matched whatever its case.
MapMealTypeToKeyAnyCase(meal_type) ==
    CASE meal_type = "Breakfast" -> "breakfast"
      [] meal_type = "Snack 1" -> "snack1"
      [] meal_type = "Lunch" -> "lunch"
      [] meal_type = "Snack 2" -> "snack2"
      [] meal_type \in {"Dinner", "dinner"} -> "dinner"
      [] OTHER -> "breakfast"

\* _map_meal_type_to_key (service.py:443-452)
MapMealTypeToKey(meal_type) ==
    CASE meal_type = "Breakfast" -> "breakfast"
      [] meal_type = "Snack 1" -> "snack1"
      [] meal_type = "Lunch" -> "lunch"
      [] meal_type = "Snack 2" -> "snack2"
      [] meal_type = "Dinner" -> "dinner"
      [] OTHER -> "breakfast"

MealAttrs == <<"breakfast", "snack1", "lunch", "snack2", "dinner">>

\* Mutant: a tri-state flag stays unknown when no item is definite about it.
AggregateKeepUnknown(its) ==
    LET tri(n) == IF \E k \in 1..Len(its) : its[k].containsMicronutrients[n] = TriTrue
                  THEN TriTrue
                  ELSE IF \E k \in 1..Len(its) : its[k].containsMicronutrients[n] = TriFalse
                       THEN TriFalse ELSE TriNone
        any(n) == \E k \in 1..Len(its) : its[k].containsMicronutrients[n]
    IN  [calcium |-> any("calcium"), iron |-> any("iron"),
         folicAcid |-> any("folicAcid"), protein |-> any("protein"),
         vitaminD |-> tri("vitaminD"), omega3 |-> tri("omega3"), fiber |-> tri("fiber")]

\* _aggregate_micronutrients (service.py:359-369)
AggregateMicronutrients(its) ==
    LET tri(n) == IF \E k \in 1..Len(its) : its[k].containsMicronutrients[n] = TriTrue
                  THEN TriTrue ELSE TriFalse
        any(n) == \E k \in 1..Len(its) : its[k].containsMicronutrients[n]
    IN  [calcium |-> any("calcium"), iron |-> any("iron"),
         folicAcid |-> any("folicAcid"), protein |-> any("protein"),
         vitaminD |-> tri("vitaminD"), omega3 |-> tri("omega3"), fiber |-> tri("fiber")]

\* Mutant: 'good' needs more than two meals.
GetStatusOverTwo(covered, meal_count) ==
    IF ~covered THEN "missing" ELSE IF meal_count > 2 THEN "good" ELSE "moderate"

\* get_status (service.py:411-416)
GetStatus(covered, meal_count) ==
    IF ~covered THEN "missing" ELSE IF meal_count >= 2 THEN "good" ELSE "moderate"

\* Mutant: the missing nutrients are listed by their field names.
CalculateDailySummaryRawNames(dm) ==
    LET covers(a, n) == dm[a] # None /\ dm[a].containsMicronutrients[n]
        mealsOf(n) == SelectSeq(MealAttrs, LAMBDA a : covers(a, n))
        status(n) == [covered |-> mealsOf(n) # <<>>,
                      mealsCovered |-> mealsOf(n),
                      status |-> GetStatus(mealsOf(n) # <<>>, Len(mealsOf(n)))]
        core == <<"calcium", "iron", "folicAcid", "protein">>
    IN  [calcium |-> status("calcium"), iron |-> status("iron"),
         folicAcid |-> status("folicAcid"), protein |-> status("protein"),
         hasWarnings |-> \E k \in 1..Len(MealAttrs) :
                            /\ dm[MealAttrs[k]] # None
                            /\ \E j \in 1..Len(dm[MealAttrs[k]].items) :
                                  dm[MealAttrs[k]].items[j].hasWarnings,
         missingNutrients |-> SelectSeq(core, LAMBDA n : mealsOf(n) = <<>>)]

\* _calculate_daily_summary (service.py:371-441)
CalculateDailySummary(dm) ==
    LET covers(a, n) == dm[a] # None /\ dm[a].containsMicronutrients[n]
        mealsOf(n) == SelectSeq(MealAttrs, LAMBDA a : covers(a, n))
        status(n) == [covered |-> mealsOf(n) # <<>>,
                      mealsCovered |-> mealsOf(n),
                      status |-> GetStatus(mealsOf(n) # <<>>, Len(mealsOf(n)))]
        core == <<"calcium", "iron", "folicAcid", "protein">>
        display == [calcium |-> "Calcium", iron |-> "Iron",
                    folicAcid |-> "Folic Acid", protein |-> "Protein"]
        missing == SelectSeq(core, LAMBDA n : mealsOf(n) = <<>>)
    IN  [calcium |-> status("calcium"), iron |-> status("iron"),
         folicAcid |-> status("folicAcid"), protein |-> status("protein"),
         hasWarnings |-> \E k \in 1..Len(MealAttrs) :
                            /\ dm[MealAttrs[k]] # None
                            /\ \E j \in 1..Len(dm[MealAttrs[k]].items) :
                                  dm[MealAttrs[k]].items[j].hasWarnings,
         missingNutrients |-> [k \in 1..Len(missing) |-> display[missing[k]]]]

NoMeals == [breakfast |-> None, snack1 |-> None, lunch |-> None, snack2 |-> None, dinner |-> None]

InitialSummary ==
    LET missing == [covered |-> FALSE, mealsCovered |-> <<>>, status |-> "missing"]
    IN  [calcium |-> missing, iron |-> missing, folicAcid |-> missing, protein |-> missing,
         hasWarnings |-> FALSE, missingNutrients |-> <<>>]

\* The grouping loop (service.py:122-159) over the rows from position k on;
\* days is day_map in insertion order.
RECURSIVE GroupRows(_, _, _, _)
GroupRows(rows, k, nmap, days) ==
    IF k > Len(rows) THEN days
    ELSE LET row == rows[k]
             date_key == DateKey(row.meal_date)
             known == \E d \in 1..Len(days) : days[d].id = date_key
             days1 == IF known THEN days
                      ELSE Append(days, [id |-> date_key, date |-> date_key,
                                         dayOfWeek |-> row.day_of_week,
                                         meals |-> NoMeals,
                                         dailySummary |-> InitialSummary])
             d == CHOOSE x \in 1..Len(days1) : days1[x].id = date_key
             key == MapMealTypeToKey(row.meal_type)
             meals1 == IF days1[d].meals[key] = None
                       THEN [days1[d].meals EXCEPT ![key] =
                                [id |-> row.meal_id, type |-> row.meal_type, items |-> <<>>,
                                 containsMicronutrients |-> DefaultPresence,
                                 notes |-> row.meal_notes]]
                       ELSE days1[d].meals
             meals2 == IF row.id # NULL
                       THEN [meals1 EXCEPT ![key].items =
                                Append(@, MapFoodItem(row, MapGet(nmap, row.id)))]
                       ELSE meals1
         IN  GroupRows(rows, k + 1, nmap, [days1 EXCEPT ![d].meals = meals2])

\* The aggregation pass (service.py:161-168) over one day.
Summarize(day) ==
    LET meals1 == [a \in DOMAIN day.meals |->
                     IF day.meals[a] # None
                     THEN [day.meals[a] EXCEPT !.containsMicronutrients =
                              AggregateMicronutrients(day.meals[a].items)]
                     ELSE None]
    IN  [day EXCEPT !.meals = meals1, !.dailySummary = CalculateDailySummary(meals1)]

\* get_meals_by_date_range (service.py:93-170) on one order of the result rows.
BuildDays(rows, fn) ==
    LET food_ids == {rows[k].id : k \in 1..Len(rows)} \ {NULL}
        nmap == GetFoodNutrientsMap(fn, food_ids)
        days == GroupRows(rows, 1, nmap, <<>>)
    IN  [d \in 1..Len(days) |-> Summarize(days[d])]

\* Every list of days a call may return on the given tables.
GetMealsByDateRange(ms, its, fs, fn, u, s, e) ==
    {BuildDays(rows, fn) : rows \in Orderings(JoinedRows(ms, its, fs, u, s, e))}

\* ------------------------------------------------------------- requests
Returned == {"idle", "done", "failed"}

NoOp == [kind |-> "none", user |-> NULL, date |-> 0, dow |-> NULL, mtype |-> NULL,
         list |-> <<>>, meal_id |-> 0]
NoLoc == [meal_id |-> 0, next_order |-> 0, idx |-> 0]

UpsertArgs(S, W, F) ==
    {[kind |-> "upsert", user |-> k[1], date |-> k[2], dow |-> w, mtype |-> k[3],
      list |-> L, meal_id |-> 0] : k \in S, w \in W, L \in FoodLists(F)}
AddArgs(S, W, F) ==
    {[kind |-> "add", user |-> k[1], date |-> k[2], dow |-> w, mtype |-> k[3],
      list |-> <<f>>, meal_id |-> 0] : k \in S, w \in W, f \in F}
RemoveArgs(F) ==
    {[kind |-> "remove", user |-> NULL, date |-> 0, dow |-> NULL, mtype |-> NULL,
      list |-> <<f>>, meal_id |-> mid] : mid \in MealIds, f \in F}
DeleteArgs ==
    {[kind |-> "delete", user |-> NULL, date |-> 0, dow |-> NULL, mtype |-> NULL,
      list |-> <<>>, meal_id |-> mid] : mid \in MealIds}

FirstLabel(o) ==
    CASE o.kind = "upsert" -> "upsert_header"
      [] o.kind = "add" -> "add_header"
      [] o.kind = "remove" -> "remove"
      [] o.kind = "delete" -> "delete"

\* The statement at `label` of the method called with arguments o, local
\* variables l, on tables T: the tables, locals and position after it.
\* "capped" stands for a statement the model's id bounds do not let run.
HeaderStmt(T, o, l, next) ==
    LET r == UpsertHeader(T.meals, T.nextMealId, o.user, o.date, o.dow, o.mtype)
    IN  IF r.next > MaxMealId + 1
        THEN [T |-> T, loc |-> l, pc |-> "capped"]
        ELSE [T |-> [T EXCEPT !.meals = r.meals, !.nextMealId = r.next],
              loc |-> [l EXCEPT !.meal_id = r.id],
              pc |-> next]

InsertStmt(T, l, f, so, next) ==
    IF T.nextItemId > MaxItemId THEN [T |-> T, loc |-> l, pc |-> "capped"]
    ELSE [T |-> [T EXCEPT !.items = InsertItem(T.items, T.nextItemId, l.meal_id, f, so),
                          !.nextItemId = T.nextItemId + 1],
          loc |-> l,
          pc |-> next]

\* upsert_meal (service.py:172-212)
UpsertMealHeader(T, o, l) == HeaderStmt(T, o, l, "upsert_delete")

UpsertMealDelete(T, o, l) ==
    [T |-> [T EXCEPT !.items = DeleteItemsOfMeal(T.items, l.meal_id)],
     loc |-> [l EXCEPT !.idx = 0],
     pc |-> IF o.list # <<>> THEN "upsert_insert" ELSE "done"]

UpsertMealInsert(T, o, l) ==
    LET r == InsertStmt(T, l, o.list[l.idx + 1], l.idx,
                        IF l.idx + 1 < Len(o.list) THEN "upsert_insert" ELSE "done")
    IN  IF r.pc = "capped" THEN r
        ELSE [r EXCEPT !.loc = [l EXCEPT !.idx = l.idx + 1]]

\* add_meal_item (service.py:214-241)
AddMealItemHeader(T, o, l) == HeaderStmt(T, o, l, "add_max")

AddMealItemMax(T, o, l) ==
    [T |-> T, loc |-> [l EXCEPT !.next_order = NextOrder(T.items, l.meal_id)], pc |-> "add_insert"]

AddMealItemInsert(T, o, l) == InsertStmt(T, l, o.list[1], l.next_order, "done")

\* remove_meal_item (service.py:243-249)
RemoveMealItem(T, o, l) ==
    [T |-> [T EXCEPT !.items = DeleteItemOfFood(T.items, o.meal_id, o.list[1])],
     loc |-> l, pc |-> "done"]

\* delete_meal (service.py:251-257)
DeleteMeal(T, o, l, casc) ==
    [T |-> [T EXCEPT !.meals = DeleteMealRow(T.meals, o.meal_id),
                     !.items = ItemsAfterMealDelete(T.items, o.meal_id, casc)],
     loc |-> l, pc |-> "done"]

Exec(T, o, l, label, casc) ==
    CASE label = "upsert_header" -> UpsertMealHeader(T, o, l)
      [] label = "upsert_delete" -> UpsertMealDelete(T, o, l)
      [] label = "upsert_insert" -> UpsertMealInsert(T, o, l)
      [] label = "add_header" -> AddMealItemHeader(T, o, l)
      [] label = "add_max" -> AddMealItemMax(T, o, l)
      [] label = "add_insert" -> AddMealItemInsert(T, o, l)
      [] label = "remove" -> RemoveMealItem(T, o, l)
      [] label = "delete" -> DeleteMeal(T, o, l, casc)

\* The method run from `label` until it returns, or until its statement number
\* n + 1 raises (execute_query's except branch, pg_database.py:75-78: the failed
\* statement is rolled back, the earlier ones are committed, the exception
\* leaves the method).
RECURSIVE Run(_, _, _, _, _, _)
Run(T, o, l, label, casc, n) ==
    IF label \in Returned \cup {"capped"} THEN [T |-> T, loc |-> l, pc |-> label]
    ELSE IF n = 0 THEN [T |-> T, loc |-> l, pc |-> "failed"]
    ELSE LET r == Exec(T, o, l, label, casc)
         IN  Run(r.T, o, r.loc, r.pc, casc, n - 1)

\* Statements of the longest method: header, delete, MaxLen inserts.
MaxStmts == MaxLen + 2

\* The meal a call is aimed at: by slot for upsert_meal and add_meal_item, by
\* id for remove_meal_item and delete_meal.
TargetMeals(ms, o) ==
    IF o.kind \in {"upsert", "add"} THEN MealOfKey(ms, o.user, o.date, o.mtype)
    ELSE {m \in ms : m.id = o.meal_id}

ItemsOf(its, mid) == {i \in its : i.meal_id = mid}

NoBefore == [header |-> FALSE, items |-> FALSE, repeat |-> FALSE]

\* No connection is checked out (get_pool, pg_database.py:23-32); no chat
\* message and no daily log is stored.
InitRest ==
    /\ pool = [used |-> 0, others |-> 0]
    /\ chat_messages = {}
    /\ daily_logs = {}

Init ==
    /\ meals = {}
    /\ items = {}
    /\ foods = SeedFoods
    /\ food_nutrients = SeedFoodNutrients
    /\ nextMealId = 1
    /\ nextItemId = 1
    /\ pc = [p \in Procs |-> "idle"]
    /\ op = [p \in Procs |-> NoOp]
    /\ loc = [p \in Procs |-> NoLoc]
    /\ before = [p \in Procs |-> NoBefore]
    /\ sawDone = [p \in Procs |-> {}]
    /\ issued = [p \in Procs |-> <<>>]
    /\ ret = [p \in Procs |-> None]
    /\ InitRest

SetTables(T) ==
    /\ meals' = T.meals
    /\ items' = T.items
    /\ nextMealId' = T.nextMealId
    /\ nextItemId' = T.nextItemId

\* What a call by p with arguments o finds: whether its target meal exists,
\* whether that meal has items, whether the call repeats p's previous call.
Found(p, o) ==
    [header |-> TargetMeals(meals, o) # {},
     items |-> \E m \in TargetMeals(meals, o) : ItemsOf(items, m.id) # {},
     repeat |-> (pc[p] = "done" /\ op[p] = o)]

\* ---- one caller: a call runs to its return before the next call is issued
\* A call that returns normally.
Serve(p, o, casc) ==
    /\ pc[p] \in Returned
    /\ op' = [op EXCEPT ![p] = o]
    /\ before' = [before EXCEPT ![p] = Found(p, o)]
    /\ LET r == Run(Tables, o, NoLoc, FirstLabel(o), casc, MaxStmts)
       IN  /\ r.pc = "done"
           /\ SetTables(r.T)
           /\ loc' = [loc EXCEPT ![p] = r.loc]
           /\ pc' = [pc EXCEPT ![p] = "done"]
    /\ UNCHANGED <<sawDone, catalog, observed, rest>>

upsert_meal(p, Args) == \E o \in Args : Serve(p, o, TRUE)
add_meal_item(p, Args) == \E o \in Args : Serve(p, o, TRUE)
remove_meal_item(p, Args) == \E o \in Args : Serve(p, o, TRUE)
delete_meal(p, Args) == \E o \in Args, casc \in BOOLEAN : Serve(p, o, casc)

\* One caller filling and editing one slot.
SlotUpserts == UpsertArgs(OneSlot, {"Mon"}, {"A", "B"})
SlotAdds == AddArgs(OneSlot, {"Mon"}, FoodIds)
SlotRemoves == RemoveArgs(FoodIds)

Next ==
    \/ upsert_meal(1, SlotUpserts)
    \/ add_meal_item(1, SlotAdds)
    \/ remove_meal_item(1, SlotRemoves)

Spec == Init /\ [][Next]_vars

\* One caller working on the two slots of a day, deleting meals too.
DayUpserts == UpsertArgs(DaySlots, {"Mon", "Tue"}, {"A"})
DayAdds == AddArgs(DaySlots, {"Mon", "Tue"}, {"A"})
DayRemoves == RemoveArgs({"A"})

NextDay ==
    \/ upsert_meal(1, DayUpserts)
    \/ add_meal_item(1, DayAdds)
    \/ remove_meal_item(1, DayRemoves)
    \/ delete_meal(1, DeleteArgs)

SpecDay == Init /\ [][NextDay]_vars

\* One caller filling the two slots of a day and deleting meals.
DelUpserts == UpsertArgs(DaySlots, {"Mon"}, {"A"})

NextDel ==
    \/ upsert_meal(1, DelUpserts)
    \/ delete_meal(1, DeleteArgs)

SpecDel == Init /\ [][NextDel]_vars

\* ---- concurrent requests: every statement is its own committed step
\* Request p enters a method and runs its first statement; `found` is what is
\* kept of the state the call began in.
BeginFrom(p, o, found) ==
    /\ pc[p] \in Returned
    /\ op' = [op EXCEPT ![p] = o]
    /\ before' = [before EXCEPT ![p] = found]
    /\ sawDone' = [q \in Procs |->
                     IF q = p THEN {r \in Procs \ {p} : pc[r] = "done"}
                     ELSE sawDone[q] \ {p}]
    /\ LET r == Exec(Tables, o, NoLoc, FirstLabel(o), TRUE)
       IN  /\ r.pc # "capped"
           /\ SetTables(r.T)
           /\ loc' = [loc EXCEPT ![p] = r.loc]
           /\ pc' = [pc EXCEPT ![p] = r.pc]
    /\ UNCHANGED <<catalog, observed, rest>>

Begin(p, o) == BeginFrom(p, o, before[p])

\* Request p runs the next statement of its method.
Statement(p) ==
    /\ pc[p] \notin Returned
    /\ LET r == Exec(Tables, op[p], loc[p], pc[p], TRUE)
       IN  /\ r.pc # "capped"
           /\ SetTables(r.T)
           /\ loc' = [loc EXCEPT ![p] = r.loc]
           /\ pc' = [pc EXCEPT ![p] = r.pc]
    /\ UNCHANGED <<op, before, sawDone, catalog, observed, rest>>

ConcUpserts == UpsertArgs(OneSlot, {"Mon"}, {"A", "B"})
ConcAdds == AddArgs(OneSlot, {"Mon"}, {"A", "B"})

NextConc ==
    \E p \in Procs :
        \/ \E o \in ConcUpserts : Begin(p, o)
        \/ \E o \in ConcAdds : Begin(p, o)
        \/ Statement(p)

SpecConc == Init /\ [][NextConc]_vars

\* Two callers that only add items to the slot.
NextAdds ==
    \E p \in Procs :
        \/ \E o \in ConcAdds : Begin(p, o)
        \/ Statement(p)

SpecAdds == Init /\ [][NextAdds]_vars

\* ------------------------------------------- the food catalog's methods
\* The tables a call works on, as one value.
World ==
    [meals |-> meals, items |-> items, nextMealId |-> nextMealId, nextItemId |-> nextItemId,
     foods |-> foods, food_nutrients |-> food_nutrients]

TablesOf(W) ==
    [meals |-> W.meals, items |-> W.items, nextMealId |-> W.nextMealId, nextItemId |-> W.nextItemId]

WithTables(W, T) ==
    [W EXCEPT !.meals = T.meals, !.items = T.items,
              !.nextMealId = T.nextMealId, !.nextItemId = T.nextItemId]

SetWorld(W) ==
    /\ SetTables(TablesOf(W))
    /\ foods' = W.foods
    /\ food_nutrients' = W.food_nutrients

\* The exception execute_query re-raises (pg_database.py:75-78).
StorageFailure == [raised |-> "storage failure"]

\* Rows of the table nutrients, and the ids the database hands to new foods.
NutrientNames == {"calcium", "iron", "folate", "protein", "vitamin_d", "dha", "fiber"}
FreshFoodIds == <<"D", "E">>
NewFoodId(fs) ==
    LET free == {k \in DOMAIN FreshFoodIds : ~\E f \in fs : f.id = FreshFoodIds[k]}
    IN  IF free = {} THEN NULL
        ELSE FreshFoodIds[CHOOSE k \in free : \A j \in free : k <= j]

\* INSERT INTO foods (...) VALUES (...) RETURNING * (service.py:57-76)
NewFoodRow(fs, food) ==
    [id |-> NewFoodId(fs), name |-> food.name,
     is_safe_pregnancy |-> ~food.hasWarnings, warning_message |-> food.warningMessage]

\* The names _insert_nutrient_mappings collects (service.py:334-348).
MappedNames(m) ==
    {n \in NutrientNames :
        \/ n = "calcium" /\ m.calcium
        \/ n = "iron" /\ m.iron
        \/ n = "folate" /\ m.folicAcid
        \/ n = "protein" /\ m.protein
        \/ n = "vitamin_d" /\ m.vitaminD = TriTrue
        \/ n = "dha" /\ m.omega3 = TriTrue
        \/ n = "fiber" /\ m.fiber = TriTrue}

\* INSERT INTO food_nutrients SELECT %s, id, true FROM nutrients WHERE name IN (...)
InsertNutrientMappings(fn, food_id, names) ==
    fn \cup {[food_id |-> food_id, name |-> n, is_present |-> TRUE] : n \in names \cap NutrientNames}

\* name ILIKE '%query%' on the names of the catalog.
ILike(name, query) ==
    \/ query = ""
    \/ <<name, query>> \in {<<"Spinach Salad", "sal">>, <<"Spinach Salad", "SPIN">>,
                            <<"Oatmeal", "oat">>, <<"Kale Salad", "sal">>}

\* ORDER BY name: the text order of the catalog's names.
NameRank(name) ==
    CASE name = "Brie" -> 1
      [] name = "Kale Salad" -> 2
      [] name = "Lentil Soup" -> 3
      [] name = "Oatmeal" -> 4
      [] name = "Spinach Salad" -> 5

\* LIMIT 20 of search_foods.
SearchLimit == 20

\* The rows of R in an order that ORDER BY name allows (equal names: any order).
RECURSIVE ByName(_)
ByName(R) ==
    IF R = {} THEN {<<>>}
    ELSE UNION {{<<r>> \o t : t \in ByName(R \ {r})} :
                r \in {x \in R : ~\E y \in R : NameRank(y.name) < NameRank(x.name)}}

\* [self._map_food_item(row, nutrients_map.get(row['id'], [])) for row in results]
MapFoods(rows, nmap) ==
    [k \in 1..Len(rows) |-> MapFoodItem(rows[k], MapGet(nmap, rows[k].id))]

\* The rows the first query of a food method returns, in each possible order.
FoodRows(W, o) ==
    CASE o.kind = "all_foods" -> ByName(W.foods)
      [] o.kind = "search" ->
            {SubSeq(q, 1, IF Len(q) < SearchLimit THEN Len(q) ELSE SearchLimit) :
               q \in ByName({f \in W.foods : ILike(f.name, o.query)})}
      [] o.kind = "food_by_id" ->
            ByName({f \in W.foods : f.id = o.food_id})

\* The food ids a read hands to _get_food_nutrients_map.
LookupIds(W, o) ==
    IF o.kind = "range"
    THEN {r.id : r \in JoinedRows(W.meals, W.items, W.foods, o.user, o.start, o.stop)} \ {NULL}
    ELSE IF o.kind = "nutrients_map" THEN o.food_ids
    ELSE {f.id : f \in UNION {{q[k] : k \in 1..Len(q)} : q \in FoodRows(W, o)}}

WriteKinds == {"upsert", "add", "remove", "delete"}
ReadKinds == {"range", "all_foods", "search", "food_by_id", "nutrients_map"}

\* ------------------------------------------------ calls, statement by statement
\* The statements a call runs when none fails: for each the label of the
\* execute_query call and the tables after it.
RECURSIVE WriteSteps(_, _, _, _, _, _)
WriteSteps(W, T, o, l, label, casc) ==
    IF label \in Returned \cup {"capped"} THEN <<>>
    ELSE LET r == Exec(T, o, l, label, casc)
         IN  <<[label |-> label, W |-> WithTables(W, r.T), capped |-> r.pc = "capped"]>>
             \o WriteSteps(W, r.T, o, r.loc, r.pc, casc)

\* create_food (service.py:55-82)
CreateSteps(W, o) ==
    LET row == NewFoodRow(W.foods, o.food)
        W1 == [W EXCEPT !.foods = W.foods \cup {row}]
        names == MappedNames(o.food.containsMicronutrients)
    IN  <<[label |-> "create_insert", W |-> W1, capped |-> row.id = NULL]>>
        \o (IF names # {}
            THEN <<[label |-> "create_mappings",
                    W |-> [W1 EXCEPT !.food_nutrients =
                              InsertNutrientMappings(W1.food_nutrients, row.id, names)],
                    capped |-> FALSE]>>
            ELSE <<>>)

\* Mutant: one nutrient query per food id.
ReadStepsPerFood(W, o) ==
    (IF o.kind = "nutrients_map" THEN <<>> ELSE <<[label |-> o.kind, W |-> W, capped |-> FALSE]>>)
    \o [k \in 1..Cardinality(LookupIds(W, o)) |->
          [label |-> "nutrient_lookup", W |-> W, capped |-> FALSE]]

\* The reads: one select, then _get_food_nutrients_map's query unless it has
\* no food ids (service.py:311-312); _get_food_nutrients_map itself has only
\* the latter.
ReadSteps(W, o) ==
    (IF o.kind = "nutrients_map" THEN <<>> ELSE <<[label |-> o.kind, W |-> W, capped |-> FALSE]>>)
    \o (IF LookupIds(W, o) # {}
        THEN <<[label |-> "nutrient_lookup", W |-> W, capped |-> FALSE]>>
        ELSE <<>>)

Plan(W, o, casc) ==
    CASE o.kind \in WriteKinds -> WriteSteps(W, TablesOf(W), o, NoLoc, FirstLabel(o), casc)
      [] o.kind = "create" -> CreateSteps(W, o)
      [] o.kind \in ReadKinds -> ReadSteps(W, o)

\* What a call that ran all its statements on W0, leaving W, gives its caller.
Result(W0, W, o) ==
    CASE o.kind \in WriteKinds -> {None}
      [] o.kind = "create" -> {MapFoodItem(NewFoodRow(W0.foods, o.food), {})}
      [] o.kind = "range" ->
            GetMealsByDateRange(W.meals, W.items, W.foods, W.food_nutrients,
                                o.user, o.start, o.stop)
      [] o.kind \in {"all_foods", "search"} ->
            {MapFoods(rows, GetFoodNutrientsMap(W.food_nutrients, LookupIds(W, o))) :
               rows \in FoodRows(W, o)}
      [] o.kind = "nutrients_map" -> {GetFoodNutrientsMap(W.food_nutrients, o.food_ids)}
      [] o.kind = "food_by_id" ->
            {IF rows = <<>> THEN None
             ELSE MapFoodItem(rows[1], MapGet(GetFoodNutrientsMap(W.food_nutrients, {rows[1].id}),
                                              rows[1].id)) :
               rows \in FoodRows(W, o)}

\* Mutant: the exception is swallowed, the remaining statements run and the
\* caller gets an empty value.
OutcomeSwallowed(W0, plan, o, k) ==
    [W |-> IF plan = <<>> THEN W0 ELSE plan[Len(plan)].W,
     issued |-> [i \in 1..Len(plan) |-> plan[i].label],
     pc |-> IF k < Len(plan) THEN "failed" ELSE "done",
     rets |-> IF k < Len(plan) THEN {None} ELSE Result(W0, plan[Len(plan)].W, o)]

\* What a call whose statement k + 1 raises leaves behind: the statements
\* before it are committed, the raising one is rolled back (pg_database.py:
\* 75-78), none after it is issued, and the exception reaches the caller.
Outcome(W0, plan, o, k) ==
    LET W == IF k = 0 THEN W0 ELSE plan[k].W
    IN  IF k < Len(plan)
        THEN [W |-> W, issued |-> [i \in 1..(k + 1) |-> plan[i].label],
              pc |-> "failed", rets |-> {StorageFailure}]
        ELSE [W |-> W, issued |-> [i \in 1..Len(plan) |-> plan[i].label],
              pc |-> "done", rets |-> Result(W0, W, o)]

\* Request p calls a method.  With mayFail any one of its statements may raise;
\* without, the call runs to its end.
Call(p, o, casc, mayFail) ==
    /\ pc[p] \in Returned
    /\ \E plan \in {Plan(World, o, casc)} :
          /\ \A i \in 1..Len(plan) : ~plan[i].capped
          /\ \E k \in (IF mayFail THEN 0..Len(plan) ELSE {Len(plan)}) :
                \E out \in {Outcome(World, plan, o, k)} :
                   /\ SetWorld(out.W)
                   /\ issued' = [issued EXCEPT ![p] = out.issued]
                   /\ pc' = [pc EXCEPT ![p] = out.pc]
                   /\ \E v \in out.rets : ret' = [ret EXCEPT ![p] = v]
    /\ op' = [op EXCEPT ![p] = o]
    /\ UNCHANGED <<loc, before, sawDone, rest>>

\* A call in which any statement may raise.
Attempt(p, o) == Call(p, o, TRUE, TRUE)

\* A call in which no statement raises.
Complete(p, o) == Call(p, o, TRUE, FALSE)

CreateArgs ==
    {[kind |-> "create",
      food |-> [name |-> "Kale Salad", hasWarnings |-> FALSE, warningMessage |-> NULL,
                containsMicronutrients |-> m]] :
       m \in {DefaultPresence, [DefaultPresence EXCEPT !.iron = TRUE, !.fiber = TriTrue]}}
RangeArgs(U, D) ==
    {[kind |-> "range", user |-> u, start |-> s, stop |-> e] : u \in U, s \in D, e \in D}
FoodByIdArgs(F) == {[kind |-> "food_by_id", food_id |-> f] : f \in F}
AllFoodsArgs == {[kind |-> "all_foods"]}
SearchArgs(Q) == {[kind |-> "search", query |-> q] : q \in Q}
NutrientsMapArgs(F) == {[kind |-> "nutrients_map", food_ids |-> ids] : ids \in SUBSET F}

\* One caller whose calls may fail at any statement.
FailUpserts == UpsertArgs(OneSlot, {"Mon"}, {"A"})
FailAdds == AddArgs(OneSlot, {"Mon"}, {"B"})
FailReads == RangeArgs({"u1"}, {1}) \cup FoodByIdArgs({"A", "Z"})

NextFail ==
    \/ \E o \in FailUpserts : Attempt(1, o)
    \/ \E o \in FailAdds : Attempt(1, o)
    \/ \E o \in CreateArgs : Attempt(1, o)
    \/ \E o \in FailReads : Attempt(1, o)

SpecFail == Init /\ [][NextFail]_vars

\* One caller filling slots of two users and two dates and reading ranges.
ReadSlots == {<<"u1", 1, "Breakfast">>, <<"u1", 2, "Breakfast">>, <<"u2", 1, "Breakfast">>}
ReadUpserts == {o \in UpsertArgs(ReadSlots, {"Mon"}, {"B"}) : Len(o.list) <= 1}
ReadRanges == RangeArgs({"u1"}, 1..2) \cup RangeArgs({"u2"}, {1})

get_meals_by_date_range(p, Args) == \E o \in Args : Complete(p, o)

NextRead ==
    \/ upsert_meal(1, ReadUpserts)
    \/ get_meals_by_date_range(1, ReadRanges)

SpecRead == Init /\ [][NextRead]_vars

\* One caller filling one slot with any foods of the catalog and reading it.
MealUpserts == UpsertArgs(OneSlot, {"Mon"}, FoodIds)
MealRanges == RangeArgs({"u1"}, {1})

NextMeal ==
    \/ upsert_meal(1, MealUpserts)
    \/ get_meals_by_date_range(1, MealRanges)

SpecMeal == Init /\ [][NextMeal]_vars

\* ------------------------------------------------ the pure functions
\* A meal as the grouping and aggregation passes build it from the catalog
\* foods of L.
MealOf(id, type, L) ==
    LET row(f) == CHOOSE r \in SeedFoods : r.id = f
        its == [k \in 1..Len(L) |->
                  MapFoodItem(row(L[k]),
                              MapGet(GetFoodNutrientsMap(SeedFoodNutrients, {L[k]}), L[k]))]
    IN  [id |-> id, type |-> type, items |-> its,
         containsMicronutrients |-> AggregateMicronutrients(its), notes |-> NULL]

\* The meals a slot may hold: none, or a meal of at most one catalog food.
SlotMeals(id, type) ==
    {None} \cup {MealOf(id, type, L) : L \in SeqsUpTo({"A", "B", "C", "L"}, 1)}

DayMealsInputs ==
    [breakfast : SlotMeals(1, "Breakfast"), snack1 : SlotMeals(2, "Snack 1"),
     lunch : SlotMeals(3, "Lunch"), snack2 : SlotMeals(4, "Snack 2"),
     dinner : SlotMeals(5, "Dinner")]

\* The state in which request 1 is about to call a pure function on an input.
InitPure(Inputs) ==
    /\ meals = {}
    /\ items = {}
    /\ foods = SeedFoods
    /\ food_nutrients = SeedFoodNutrients
    /\ nextMealId = 1
    /\ nextItemId = 1
    /\ pc = [p \in Procs |-> "idle"]
    /\ op \in {[p \in Procs |-> IF p = 1 THEN o ELSE NoOp] : o \in Inputs}
    /\ loc = [p \in Procs |-> NoLoc]
    /\ before = [p \in Procs |-> NoBefore]
    /\ sawDone = [p \in Procs |-> {}]
    /\ issued = [p \in Procs |-> <<>>]
    /\ ret = [p \in Procs |-> None]
    /\ InitRest

\* Request p gets the value of the function.
Apply(p, value) ==
    /\ pc[p] = "idle"
    /\ pc' = [pc EXCEPT ![p] = "done"]
    /\ ret' = [ret EXCEPT ![p] = value]
    /\ UNCHANGED <<db, catalog, op, loc, before, sawDone, issued, rest>>

\* _calculate_daily_summary on the meals of a day.
SummaryInputs == {[kind |-> "summary", meals |-> dm] : dm \in DayMealsInputs}

calculate_daily_summary(p) ==
    /\ op[p].kind = "summary"
    /\ Apply(p, CalculateDailySummary(op[p].meals))

InitSummary == InitPure(SummaryInputs)
NextSummary == calculate_daily_summary(1)
SpecSummary == InitSummary /\ [][NextSummary]_vars

\* _map_food_item on a food row and a list of nutrient names.
LookupNames == NutrientNames \cup {"folic acid"}
MapInputs ==
    {[kind |-> "map_food_item", row |-> r, nutrients |-> N] :
       r \in SeedFoods, N \in SUBSET LookupNames}

map_food_item(p) ==
    /\ op[p].kind = "map_food_item"
    /\ Apply(p, MapFoodItem(op[p].row, op[p].nutrients))

InitMap == InitPure(MapInputs)
NextMap == map_food_item(1)
SpecMap == InitMap /\ [][NextMap]_vars

\* One caller adding foods to the catalog, filling a slot and reading foods.
FoodsUpserts == {o \in UpsertArgs(OneSlot, {"Mon"}, {"B", "C"}) : Len(o.list) <= 1}
FoodsById == FoodByIdArgs({"A", "C", "D", "Z"})
FoodsSearches == SearchArgs({"", "sal", "zzz"})
FoodsMaps == NutrientsMapArgs({"B", "C", "D"})

create_food(p, Args) == \E o \in Args : Complete(p, o)
get_food_by_id(p, Args) == \E o \in Args : Complete(p, o)
get_all_foods(p) == \E o \in AllFoodsArgs : Complete(p, o)
search_foods(p, Args) == \E o \in Args : Complete(p, o)
get_food_nutrients_map(p, Args) == \E o \in Args : Complete(p, o)

NextFoods ==
    \/ create_food(1, CreateArgs)
    \/ upsert_meal(1, FoodsUpserts)
    \/ get_food_by_id(1, FoodsById)
    \/ get_all_foods(1)
    \/ search_foods(1, FoodsSearches)
    \/ get_meals_by_date_range(1, MealRanges)
    \/ get_food_nutrients_map(1, FoodsMaps)

SpecFoods == Init /\ [][NextFoods]_vars

\* One writer replacing the list of a slot statement by statement while a
\* reader reads the day.  The reader's select is one statement; its nutrient
\* query reads food_nutrients only, which upsert_meal does not write, so the
\* read is one step.
SnapUpserts == UpsertArgs(OneSlot, {"Mon"}, {"A", "B"})

\* What a returned list of days shows of the single day's slot `key`: whether
\* a meal is there, and the food ids of its items.
Shown(days, key) ==
    IF days = <<>> THEN [meal |-> FALSE, list |-> <<>>]
    ELSE LET m == days[1].meals[key]
         IN  IF m = None THEN [meal |-> FALSE, list |-> <<>>]
             ELSE [meal |-> TRUE, list |-> [k \in 1..Len(m.items) |-> m.items[k].id]]

\* What a read of the slot of o gives on the stored rows.
StoredViews(o) ==
    {Shown(days, MapMealTypeToKey(o.mtype))
     : days \in GetMealsByDateRange(meals, items, foods, food_nutrients, o.user, o.date, o.date)}

begin_upsert_meal(p, Args) ==
    \E o \in Args :
        BeginFrom(p, o, [header |-> Found(p, o).header, items |-> Found(p, o).items,
                         repeat |-> Found(p, o).repeat, old |-> StoredViews(o)])

NextSnap ==
    \/ begin_upsert_meal(1, SnapUpserts)
    \/ Statement(1)
    \/ get_meals_by_date_range(2, MealRanges)

SpecSnap == Init /\ [][NextSnap]_vars

\* One caller storing meals under the slot-type labels it is given (the label
\* is any string, models.py:87-92) and reading the day.
TypeLabels == {"Breakfast", "Brunch", "Aperitif", "dinner"}
TypeUpserts ==
    {o \in UpsertArgs({<<"u1", 1, t>> : t \in TypeLabels}, {"Mon"}, {"A", "L"}) :
        o.list \in (IF o.mtype = "Breakfast" THEN {<<>>, <<"A">>} ELSE {<<"L">>})}

NextType ==
    \/ upsert_meal(1, TypeUpserts)
    \/ get_meals_by_date_range(1, MealRanges)

SpecType == Init /\ [][NextType]_vars

\* One caller working on the two slots of a day whose Breakfast row carries
\* notes (the meals.notes column is read by the service, service.py:101, and
\* written by none of its methods).
NotedMeal ==
    [id |-> 1, user_id |-> "u1", log_date |-> 1, day_of_week |-> "Mon",
     meal_type |-> "Breakfast", notes |-> "after the walk"]
NotedItem == [id |-> 1, meal_id |-> 1, food_id |-> "A", sort_order |-> 0]

InitNoted ==
    /\ meals = {NotedMeal}
    /\ items = {NotedItem}
    /\ foods = SeedFoods
    /\ food_nutrients = SeedFoodNutrients
    /\ nextMealId = 2
    /\ nextItemId = 2
    /\ pc = [p \in Procs |-> "idle"]
    /\ op = [p \in Procs |-> NoOp]
    /\ loc = [p \in Procs |-> NoLoc]
    /\ before = [p \in Procs |-> NoBefore]
    /\ sawDone = [p \in Procs |-> {}]
    /\ issued = [p \in Procs |-> <<>>]
    /\ ret = [p \in Procs |-> None]
    /\ InitRest

NotedUpserts == {o \in UpsertArgs(DaySlots, {"Tue"}, {"B"}) : Len(o.list) <= 1}
NotedAdds == AddArgs(DaySlots, {"Tue"}, {"B"})
NotedRemoves == RemoveArgs({"A", "B"})

NextNoted ==
    \/ upsert_meal(1, NotedUpserts)
    \/ add_meal_item(1, NotedAdds)
    \/ remove_meal_item(1, NotedRemoves)
    \/ delete_meal(1, DeleteArgs)

SpecNoted == InitNoted /\ [][NextNoted]_vars

\* Two callers adding items to the slot, statement by statement, and reads of
\* the day by the first of them.
NextTies ==
    \/ \E p \in Procs, o \in ConcAdds : Begin(p, o)
    \/ \E p \in Procs : Statement(p)
    \/ get_meals_by_date_range(1, MealRanges)

SpecTies == Init /\ [][NextTies]_vars

\* ------------------------------------------- the connection pool
\* pool.SimpleConnectionPool(1, 20, ..) (pg_database.py:27-31).
MaxConn == 20

PoolError == [raised |-> "connection pool exhausted"]
QueryError == [raised |-> "query failed"]
InterfaceError == [raised |-> "connection already closed"]

\* Mutant: the pool hands out a connection beyond its maximum.
GetConnOverMax(pl) == [raised |-> FALSE, pool |-> [pl EXCEPT !.used = @ + 1]]

\* pool_instance.getconn() (pg_database.py:34-37): a connection, or PoolError at
\* once when maxconn connections are out.
GetConn(pl) ==
    IF pl.used >= MaxConn THEN [raised |-> TRUE, pool |-> pl]
    ELSE [raised |-> FALSE, pool |-> [pl EXCEPT !.used = @ + 1]]

\* pool_instance.putconn(conn) (pg_database.py:39-42)
PutConn(pl) == [pl EXCEPT !.used = @ - 1]

\* The locals of execute_query / execute_transaction: conn (None or a
\* connection), whether the server closed the connection, the exception on its
\* way to the caller, and how often the connection was handed back.
NoConn == [conn |-> FALSE, closed |-> FALSE, exc |-> None, puts |-> 0]

QueryArgs == {[kind |-> "execute_query"]}
TransactionArgs == {[kind |-> "execute_transaction"]}

\* conn = get_db_connection() inside the try (pg_database.py:59, 95).  When it
\* raises, conn is None: the except branch skips the rollback and re-raises, the
\* finally branch hands nothing back.
Connect(p, o) ==
    /\ pc[p] \in Returned
    /\ op' = [op EXCEPT ![p] = o]
    /\ issued' = [issued EXCEPT ![p] = <<>>]
    /\ \E r \in {GetConn(pool)} :
          /\ pool' = r.pool
          /\ IF r.raised
             THEN /\ pc' = [pc EXCEPT ![p] = "failed"]
                  /\ ret' = [ret EXCEPT ![p] = PoolError]
                  /\ loc' = [loc EXCEPT ![p] = NoConn]
             ELSE /\ pc' = [pc EXCEPT ![p] = "execute"]
                  /\ ret' = [ret EXCEPT ![p] = None]
                  /\ loc' = [loc EXCEPT ![p] = [NoConn EXCEPT !.conn = TRUE]]
    /\ UNCHANGED <<db, catalog, before, sawDone, chat_messages, daily_logs>>

\* cursor.execute .. conn.commit() (pg_database.py:60-73, 96-105): it returns,
\* or it raises with the connection still open, or it raises because the
\* connection was closed under it.
Execute(p) ==
    /\ pc[p] = "execute"
    /\ issued' = [issued EXCEPT ![p] = Append(@, "execute")]
    /\ \/ /\ pc' = [pc EXCEPT ![p] = "finally"]
          /\ UNCHANGED loc
       \/ \E closed \in BOOLEAN :
             /\ pc' = [pc EXCEPT ![p] = "rollback"]
             /\ loc' = [loc EXCEPT ![p] = [@ EXCEPT !.closed = closed, !.exc = QueryError]]
    /\ UNCHANGED <<db, catalog, op, before, sawDone, ret, rest>>

\* except: conn.rollback(); raise e (pg_database.py:75-78, 107-110).  On a
\* closed connection rollback raises InterfaceError, which then is the
\* exception that leaves the function.
Rollback(p) ==
    /\ pc[p] = "rollback"
    /\ pc' = [pc EXCEPT ![p] = "finally"]
    /\ loc' = [loc EXCEPT ![p] = IF @.closed THEN [@ EXCEPT !.exc = InterfaceError] ELSE @]
    /\ UNCHANGED <<db, catalog, op, before, sawDone, observed, rest>>

\* How a call ends: with its value, or with the exception on its way.
Leave(p, l) ==
    /\ loc' = [loc EXCEPT ![p] = l]
    /\ pc' = [pc EXCEPT ![p] = IF l.exc = None THEN "done" ELSE "failed"]
    /\ ret' = [ret EXCEPT ![p] = l.exc]

\* finally of execute_query (pg_database.py:79-81): the connection goes back.
QueryFinally(p) ==
    /\ pc[p] = "finally" /\ op[p].kind = "execute_query"
    /\ pool' = PutConn(pool)
    /\ Leave(p, [loc[p] EXCEPT !.puts = @ + 1])
    /\ UNCHANGED <<db, catalog, op, before, sawDone, issued, chat_messages, daily_logs>>

\* finally of execute_transaction (pg_database.py:111-114): conn.autocommit =
\* True comes first; on a closed connection the assignment raises
\* InterfaceError and return_db_connection is not reached.
TransactionFinally(p) ==
    /\ pc[p] = "finally" /\ op[p].kind = "execute_transaction"
    /\ IF loc[p].closed
       THEN /\ Leave(p, [loc[p] EXCEPT !.exc = InterfaceError])
            /\ UNCHANGED pool
       ELSE /\ pool' = PutConn(pool)
            /\ Leave(p, [loc[p] EXCEPT !.puts = @ + 1])
    /\ UNCHANGED <<db, catalog, op, before, sawDone, issued, chat_messages, daily_logs>>

\* Another request, inside execute_query, takes a connection or hands its
\* connection back.
OtherConnect ==
    /\ \E r \in {GetConn(pool)} :
          /\ ~r.raised
          /\ pool' = [r.pool EXCEPT !.others = @ + 1]
    /\ UNCHANGED <<db, catalog, pc, op, loc, before, sawDone, observed, chat_messages, daily_logs>>

OtherFinally ==
    /\ pool.others > 0
    /\ pool' = [PutConn(pool) EXCEPT !.others = @ - 1]
    /\ UNCHANGED <<db, catalog, pc, op, loc, before, sawDone, observed, chat_messages, daily_logs>>

execute_query(p) ==
    \/ \E o \in QueryArgs : Connect(p, o)
    \/ Execute(p)
    \/ Rollback(p)
    \/ QueryFinally(p)

execute_transaction(p) ==
    \/ \E o \in TransactionArgs : Connect(p, o)
    \/ Execute(p)
    \/ Rollback(p)
    \/ TransactionFinally(p)

\* Requests running execute_query while other requests hold connections.
NextQuery ==
    \/ \E p \in Procs : execute_query(p)
    \/ OtherConnect
    \/ OtherFinally

SpecQuery == Init /\ [][NextQuery]_vars

\* Requests running execute_query or execute_transaction.
NextPool ==
    \/ \E p \in Procs : execute_query(p)
    \/ \E p \in Procs : execute_transaction(p)
    \/ OtherConnect
    \/ OtherFinally

SpecPool == Init /\ [][NextPool]_vars

\* ------------------------------------------- the daily greeting
\* CURRENT_DATE during the requests, and the users asking.
Today == DateKey(1)
GreetUsers == {"u1", "u2"}

GreetingArgs ==
    {[kind |-> k, user |-> u] : k \in {"greeting_endpoint", "get_or_create"}, u \in GreetUsers}

\* get_today_greeting (chat/services.py:130-165): the newest system message of
\* today with is_greeting, or None.
GetTodayGreeting(ms, u) ==
    LET found == {m \in ms : /\ m.user_id = u /\ m.message_date = Today
                              /\ m.role = "system" /\ m.is_greeting}
    IN  IF found = {} THEN None
        ELSE CHOOSE m \in found : \A x \in found : x.id <= m.id

\* save_message (chat/services.py:81-127): INSERT INTO chat_messages .. RETURNING.
SaveMessage(ms, u, session, role, content, greeting) ==
    [id |-> Cardinality(ms) + 1, user_id |-> u, session_id |-> session, role |-> role,
     content |-> content, message_date |-> Today, is_greeting |-> greeting]

\* The existence check a request starts with: the endpoint's own
\* (routes.py:266-275) or get_or_create_daily_greeting's (services.py:372-375).
GreetingBegin(p, o) ==
    /\ pc[p] \in Returned
    /\ op' = [op EXCEPT ![p] = o]
    /\ \E g \in {GetTodayGreeting(chat_messages, o.user)} :
          IF g # None
          THEN /\ pc' = [pc EXCEPT ![p] = "done"]
               /\ ret' = [ret EXCEPT ![p] = g]
          ELSE /\ pc' = [pc EXCEPT ![p] = IF o.kind = "greeting_endpoint"
                                         THEN "greeting_check" ELSE "greeting_generate"]
               /\ ret' = [ret EXCEPT ![p] = None]
    /\ UNCHANGED <<db, catalog, loc, before, sawDone, issued, rest>>

\* The endpoint found none and calls get_or_create_daily_greeting, which checks
\* again (routes.py:278-281, services.py:372-375).
GreetingCheck(p) ==
    /\ pc[p] = "greeting_check"
    /\ \E g \in {GetTodayGreeting(chat_messages, op[p].user)} :
          IF g # None
          THEN /\ pc' = [pc EXCEPT ![p] = "done"]
               /\ ret' = [ret EXCEPT ![p] = g]
          ELSE /\ pc' = [pc EXCEPT ![p] = "greeting_generate"]
               /\ UNCHANGED ret
    /\ UNCHANGED <<db, catalog, op, loc, before, sawDone, issued, rest>>

\* generate_daily_greeting (services.py:377-378): the text, no write.
GreetingGenerate(p) ==
    /\ pc[p] = "greeting_generate"
    /\ pc' = [pc EXCEPT ![p] = "greeting_save"]
    /\ UNCHANGED <<db, catalog, op, loc, before, sawDone, observed, rest>>

\* save_message(.., role='system', metadata={'is_greeting': True, ..})
\* (services.py:380-389).
GreetingSave(p) ==
    /\ pc[p] = "greeting_save"
    /\ \E m \in {SaveMessage(chat_messages, op[p].user, "default_session", "system",
                              <<"greeting of request", p>>, TRUE)} :
          /\ chat_messages' = chat_messages \cup {m}
          /\ ret' = [ret EXCEPT ![p] = m]
    /\ pc' = [pc EXCEPT ![p] = "done"]
    /\ UNCHANGED <<db, catalog, op, loc, before, sawDone, issued, pool, daily_logs>>

get_daily_greeting(p) ==
    \/ \E o \in GreetingArgs : GreetingBegin(p, o)
    \/ GreetingCheck(p)
    \/ GreetingGenerate(p)
    \/ GreetingSave(p)

NextGreeting == \E p \in Procs : get_daily_greeting(p)

SpecGreeting == Init /\ [][NextGreeting]_vars

\* ------------------------------------------- the daily log tools
\* daily_logs has one row per (user_id, log_date): upsert_daily_log's
\* ON CONFLICT (user_id, log_date) (daily_logs/service.py:179) rests on that
\* unique index.
UniqueViolation == [raised |-> "duplicate key value violates unique constraint"]

SleepArgs ==
    {[kind |-> "log_sleep", user |-> "u1", date |-> 1, sleep_hours |-> h, sleep_quality |-> q] :
       h \in {6, 8}, q \in {"good", "superb"}}
SymptomArgs ==
    {[kind |-> "log_symptoms", user |-> "u1", date |-> 1, symptoms |-> l, symptom_severity |-> v] :
       l \in {<<"nausea">>, <<"Back Pain", "nausea">>}, v \in {"mild", "awful"}}

\* The validation both tools start with (user_data_tools.py:316-322, 412-418).
Valid(o) ==
    IF o.kind = "log_sleep" THEN o.sleep_quality \in {"poor", "fair", "good", "excellent"}
    ELSE o.symptom_severity \in {"mild", "moderate", "severe"}

\* s.lower().replace(' ', '_') (user_data_tools.py:421)
NormalizeSymptom(x) == IF x = "Back Pain" THEN "back_pain" ELSE x
Normalized(l) == [k \in 1..Len(l) |-> NormalizeSymptom(l[k])]

\* The columns a tool writes, with their values; a column it leaves out of
\* its INSERT is None.
Logged(o) ==
    IF o.kind = "log_sleep"
    THEN [sleep |-> [hours |-> o.sleep_hours, quality |-> o.sleep_quality], symptoms |-> None]
    ELSE [sleep |-> None,
          symptoms |-> [list |-> Normalized(o.symptoms), severity |-> o.symptom_severity]]

LogsOf(logs, u, d) == {r \in logs : r.user_id = u /\ r.log_date = d}

\* UPDATE daily_logs SET <the tool's columns> WHERE user_id = %s AND log_date = %s
\* (user_data_tools.py:334-347, 433-446)
UpdateLog(logs, o) ==
    {IF r \in LogsOf(logs, o.user, o.date)
     THEN (IF o.kind = "log_sleep" THEN [r EXCEPT !.sleep = Logged(o).sleep]
           ELSE [r EXCEPT !.symptoms = Logged(o).symptoms])
     ELSE r : r \in logs}

\* INSERT INTO daily_logs (user_id, log_date, <the tool's columns>)
\* (user_data_tools.py:350-359, 449-458): the new row, or the unique index's
\* error when the pair has a row.
InsertLog(logs, o) ==
    IF LogsOf(logs, o.user, o.date) # {} THEN [raised |-> TRUE, logs |-> logs]
    ELSE [raised |-> FALSE,
          logs |-> logs \cup {[id |-> Cardinality(logs) + 1, user_id |-> o.user,
                                log_date |-> o.date, sleep |-> Logged(o).sleep,
                                symptoms |-> Logged(o).symptoms]}]

\* Validation and the existence check (user_data_tools.py:316-330, 412-429).
LogBegin(p, o) ==
    /\ pc[p] \in Returned
    /\ op' = [op EXCEPT ![p] = o]
    /\ IF Valid(o)
       THEN /\ pc' = [pc EXCEPT ![p] = "log_write"]
            /\ loc' = [loc EXCEPT ![p] = [existing_log |-> LogsOf(daily_logs, o.user, o.date) # {}]]
            /\ ret' = [ret EXCEPT ![p] = None]
       ELSE /\ pc' = [pc EXCEPT ![p] = "done"]
            /\ ret' = [ret EXCEPT ![p] = [success |-> FALSE]]
            /\ UNCHANGED loc
    /\ UNCHANGED <<db, catalog, before, sawDone, issued, rest>>

\* The UPDATE or the INSERT the check decided on (user_data_tools.py:332-367,
\* 431-466) and the return.
LogWrite(p) ==
    /\ pc[p] = "log_write"
    /\ IF loc[p].existing_log
       THEN /\ daily_logs' = UpdateLog(daily_logs, op[p])
            /\ pc' = [pc EXCEPT ![p] = "done"]
            /\ ret' = [ret EXCEPT ![p] = [success |-> TRUE]]
       ELSE \E r \in {InsertLog(daily_logs, op[p])} :
               /\ daily_logs' = r.logs
               /\ pc' = [pc EXCEPT ![p] = IF r.raised THEN "failed" ELSE "done"]
               /\ ret' = [ret EXCEPT ![p] = IF r.raised THEN UniqueViolation
                                            ELSE [success |-> TRUE]]
    /\ UNCHANGED <<db, catalog, op, loc, before, sawDone, issued, pool, chat_messages>>

log_sleep_tool(p) ==
    \/ \E o \in SleepArgs : LogBegin(p, o)
    \/ LogWrite(p)

log_symptoms_tool(p) ==
    \/ \E o \in SymptomArgs : LogBegin(p, o)
    \/ LogWrite(p)

\* One request logging sleep and one logging symptoms, for the same day.
NextLogs ==
    \/ log_sleep_tool(1)
    \/ log_symptoms_tool(2)

SpecLogs == Init /\ [][NextLogs]_vars

\* ================================================================ claims
ProbeUsers == {"u1", "u2"}
ProbeDates == 0..3

\* <<food id, sort index>> of the item rows of a meal, and of a list.
Pairs(its, mid) == {<<i.food_id, i.sort_order>> : i \in ItemsOf(its, mid)}
ListPairs(L) == {<<L[k], k - 1>> : k \in 1..Len(L)}

\* The day of date d in a result, and the food ids of a returned meal.
DaysAt(res, d) == {k \in 1..Len(res) : res[k].date = DateKey(d)}
FoodIdsOf(meal) == [k \in 1..Len(meal.items) |-> meal.items[k].id]

\* What get_meals_by_date_range shows of the slot <<u, d, t>>: the food ids of
\* the meal in that slot's place, or None (one value per possible row order).
SlotViews(ms, its, fs, fn, u, d, t) ==
    {IF DaysAt(res, d) = {} THEN None
     ELSE LET m == res[CHOOSE k \in DaysAt(res, d) : TRUE].meals[MapMealTypeToKey(t)]
          IN  IF m = None THEN None ELSE FoodIdsOf(m)
     : res \in GetMealsByDateRange(ms, its, fs, fn, u, d, d)}

\* The step just taken is a returned call of method `kind` by the single caller.
Returns(kind) == pc'[1] = "done" /\ op'[1].kind = kind

\* C1: when upsert_meal(user, date, day_of_week, slot_type, L) returns, the
\* slot has one header, its items are exactly the elements of L in the order of
\* L with sort indices 0..len(L)-1, and no item row of before the call remains.
C1_UpsertReplacesItems ==
    [][Returns("upsert") =>
         \E h \in TargetMeals(meals', op'[1]) :
            /\ TargetMeals(meals', op'[1]) = {h}
            /\ Pairs(items', h.id) = ListPairs(op'[1].list)
            /\ Cardinality(ItemsOf(items', h.id)) = Len(op'[1].list)
            /\ ItemsOf(items', h.id) \cap items = {}
            /\ SlotViews(meals', items', foods', food_nutrients',
                         op'[1].user, op'[1].date, op'[1].mtype) = {op'[1].list}]_vars

\* An upsert of two different foods has returned on a slot that held items.
C1_Witness ==
    /\ pc[1] = "done" /\ op[1].kind = "upsert" /\ before[1].items
    /\ op[1].list = <<"B", "A">>
    /\ \E h \in meals : Pairs(items, h.id) = {<<"B", 0>>, <<"A", 1>>}

C3_EmptyUpsertKeepsSlot ==
    (pc[1] = "done" /\ op[1].kind = "upsert" /\ op[1].list = <<>>) =>
        \A s \in ProbeDates, e \in ProbeDates :
            (s <= op[1].date /\ op[1].date <= e) =>
                \A res \in GetMealsByDateRange(meals, items, foods, food_nutrients,
                                               op[1].user, s, e) :
                    /\ Cardinality(DaysAt(res, op[1].date)) = 1
                    /\ \A k \in DaysAt(res, op[1].date) :
                         LET m == res[k].meals[MapMealTypeToKey(op[1].mtype)]
                             others == {a \in DOMAIN res[k].meals :
                                          a # MapMealTypeToKey(op[1].mtype)
                                          /\ res[k].meals[a] # None}
                         IN  /\ m # None
                             /\ m.items = <<>>
                             /\ \A n \in {"calcium", "iron", "folicAcid", "protein"} :
                                   m.containsMicronutrients[n] = FALSE
                             /\ \A n \in {"vitaminD", "omega3", "fiber"} :
                                   m.containsMicronutrients[n] = TriFalse
                             /\ others = {} =>
                                  \A n \in {"calcium", "iron", "folicAcid", "protein"} :
                                     res[k].dailySummary[n].status = "missing"

\* An empty upsert has returned on a slot that held items, alone on its day.
C3_Witness ==
    /\ pc[1] = "done" /\ op[1].kind = "upsert" /\ op[1].list = <<>>
    /\ before[1].items
    /\ Cardinality(meals) = 1

\* C4: at most one meal header exists per (user, date, slot type), and an
\* upsert_meal or add_meal_item on an existing key keeps the header (its id)
\* and changes only its day of week.
OneHeaderPerKey(ms) ==
    \A a \in ms, b \in ms :
        (a.user_id = b.user_id /\ a.log_date = b.log_date /\ a.meal_type = b.meal_type) => a = b

C4_OneHeaderPerKey ==
    [][/\ OneHeaderPerKey(meals')
       /\ ((Returns("upsert") \/ Returns("add")) /\ TargetMeals(meals, op'[1]) # {}) =>
             meals' = {IF m \in TargetMeals(meals, op'[1])
                       THEN [m EXCEPT !.day_of_week = op'[1].dow] ELSE m : m \in meals}]_vars

\* An add on an existing slot has changed its day of week, beside another slot.
C4_Witness ==
    /\ pc[1] = "done" /\ op[1].kind = "add" /\ before[1].header
    /\ op[1].dow = "Tue"
    /\ \E a \in meals, b \in meals : a.day_of_week = "Tue" /\ b.day_of_week = "Mon"
    /\ nextMealId = 3

\* C5: add_meal_item inserts exactly one item, with sort index (maximum sort
\* index of the slot) + 1, or 0 for a slot without items, and leaves every
\* item already stored as it was.
C5_AddAppendsOne ==
    [][Returns("add") =>
         \E h \in TargetMeals(meals', op'[1]) :
            \E new \in items' \ items :
               LET old == {i.sort_order : i \in ItemsOf(items, h.id)}
               IN  /\ items' = items \cup {new}
                   /\ new.meal_id = h.id
                   /\ new.food_id = op'[1].list[1]
                   /\ old = {} => new.sort_order = 0
                   /\ old # {} => /\ (new.sort_order - 1) \in old
                                  /\ \A x \in old : x < new.sort_order]_vars

\* An add has returned on a slot whose indices had a gap: the new item has
\* index 2 and the slot holds two items.
C5_Witness ==
    /\ pc[1] = "done" /\ op[1].kind = "add" /\ before[1].items
    /\ \E i \in items : /\ i.id = nextItemId - 1
                        /\ i.sort_order = 2
                        /\ Cardinality(ItemsOf(items, i.meal_id)) = 2

\* The item rows of R in the order of their insertion (ids are handed out in
\* increasing order by the INSERT statements).
ByInsertion(R) ==
    CHOOSE q \in [1..Cardinality(R) -> R] :
        \A a \in DOMAIN q, b \in DOMAIN q : a < b => q[a].id < q[b].id

\* C6: for calls issued one after another on one slot, the items read back in
\* ascending sort index are the surviving foods in the order in which they
\* were added, whatever gaps removals left in the indices.
C6_ReadOrderIsAddOrder ==
    \A h \in meals :
        SlotViews(meals, items, foods, food_nutrients, h.user_id, h.log_date, h.meal_type)
          = {[k \in 1..Cardinality(ItemsOf(items, h.id)) |->
                ByInsertion(ItemsOf(items, h.id))[k].food_id]}

\* add C has returned after A was removed: the slot reads [B, C] over the
\* indices 1 and 2.
C6_Witness ==
    /\ pc[1] = "done" /\ op[1].kind = "add" /\ op[1].list = <<"C">>
    /\ \E h \in meals :
          /\ Pairs(items, h.id) = {<<"B", 1>>, <<"C", 2>>}
          /\ SlotViews(meals, items, foods, food_nutrients,
                       h.user_id, h.log_date, h.meal_type) = {<<"B", "C">>}

\* C7: no two items of the same slot have the same sort index, also when the
\* steps of two add_meal_item calls on the slot interleave.
C7_NoTies ==
    \A i \in items, j \in items :
        (i.meal_id = j.meal_id /\ i.sort_order = j.sort_order) => i = j

\* The food ids of v without f.
Without(v, f) ==
    LET Keep(x) == x # f
    IN  SelectSeq(v, Keep)

\* C8: remove_meal_item(meal, food) deletes the item of that meal referencing
\* that food and nothing else: headers and the other item rows (their sort
\* indices included) are as before, the remaining items read back in the same
\* relative order, and a call that matches no item changes nothing and returns.
C8_RemoveNoReindex ==
    [][Returns("remove") =>
         LET mid == op'[1].meal_id
             f == op'[1].list[1]
             hit == {i \in items : i.meal_id = mid /\ i.food_id = f}
         IN  /\ meals' = meals
             /\ items' = items \ hit
             /\ hit = {} => items' = items
             /\ \A h \in meals :
                   SlotViews(meals', items', foods', food_nutrients',
                             h.user_id, h.log_date, h.meal_type)
                     = {Without(v, IF h.id = mid THEN f ELSE NULL) :
                          v \in SlotViews(meals, items, foods, food_nutrients,
                                          h.user_id, h.log_date, h.meal_type)}]_vars

\* A removal has returned leaving a gap: the only remaining item keeps index 1.
C8_Witness ==
    /\ pc[1] = "done" /\ op[1].kind = "remove" /\ op[1].list = <<"A">>
    /\ \E h \in meals : h.id = op[1].meal_id /\ Pairs(items, h.id) = {<<"B", 1>>}
    /\ nextItemId = 3

\* C9: right after delete_meal(meal_id) returns, no get_meals_by_date_range
\* call (any user, any range) returns that meal or a row of an item that
\* belonged to it, and if it was the only meal of its date the date is absent.
C9_DeletedMealNotRead ==
    [][Returns("delete") =>
         LET mid == op'[1].meal_id
             gone == {i.id : i \in ItemsOf(items, mid)}
         IN  \A u \in ProbeUsers, s \in ProbeDates, e \in ProbeDates :
               /\ \A row \in JoinedRows(meals', items', foods', u, s, e) :
                     row.meal_id # mid /\ row.meal_item_id \notin gone
               /\ \A res \in GetMealsByDateRange(meals', items', foods', food_nutrients', u, s, e) :
                     /\ \A k \in 1..Len(res) :
                           \A a \in DOMAIN res[k].meals :
                              res[k].meals[a] = None \/ res[k].meals[a].id # mid
                     /\ \A m \in meals :
                           (/\ m.id = mid /\ m.user_id = u
                            /\ \A o \in meals : (o.user_id = u /\ o.log_date = m.log_date) => o = m)
                           => DaysAt(res, m.log_date) = {}]_vars

\* delete_meal has returned for a meal that had items, and item rows of it are
\* still stored (the items table did not cascade).
C9_Witness ==
    /\ pc[1] = "done" /\ op[1].kind = "delete"
    /\ before[1].header /\ before[1].items
    /\ ItemsOf(items, op[1].meal_id) # {}
    /\ meals = {}

\* C10: two upsert_meal calls on the same slot that are serialized (the earlier
\* one returned before the later one began) leave the list of the later call;
\* interleaved ones can leave a list equal to neither (see C10_Witness).
C10_SerializedUpsertsLastWins ==
    \A p \in Procs, q \in Procs :
        (/\ p # q
         /\ pc[p] = "done" /\ pc[q] = "done"
         /\ op[p].kind = "upsert" /\ op[q].kind = "upsert"
         /\ p \in sawDone[q])
        => \E h \in TargetMeals(meals, op[q]) :
              /\ Pairs(items, h.id) = ListPairs(op[q].list)
              /\ Cardinality(ItemsOf(items, h.id)) = Len(op[q].list)

\* Two overlapping upserts, of [A] and of [B], have both returned and the slot
\* holds the items of both.
C10_Witness ==
    /\ pc[1] = "done" /\ pc[2] = "done"
    /\ op[1].kind = "upsert" /\ op[2].kind = "upsert"
    /\ op[1].list = <<"A">> /\ op[2].list = <<"B">>
    /\ 1 \notin sawDone[2] /\ 2 \notin sawDone[1]
    /\ \E h \in TargetMeals(meals, op[1]) :
          Pairs(items, h.id) = {<<"A", 0>>, <<"B", 0>>}

\* C11: a call of upsert_meal, add_meal_item or create_food in which a storage
\* step fails leaves the stored rows as they were before the call began.
C11_NoPartialCommit ==
    [][(pc'[1] = "failed" /\ op'[1].kind \in {"upsert", "add", "create"}) =>
         <<meals', items', foods', food_nutrients'>> = <<meals, items, foods, food_nutrients>>]_vars

\* The execute_query calls of a method in program order, when it runs to its end
\* with every optional statement issued.
Listing(o) ==
    CASE o.kind = "upsert" -> <<"upsert_header", "upsert_delete">>
                              \o [i \in 1..Len(o.list) |-> "upsert_insert"]
      [] o.kind = "add" -> <<"add_header", "add_max", "add_insert">>
      [] o.kind = "create" -> <<"create_insert", "create_mappings">>
      [] OTHER -> <<o.kind, "nutrient_lookup">>

\* How many of the statements q carry one of the labels in S.
CountOf(q, S) == Cardinality({i \in DOMAIN q : q[i] \in S})

\* C12: when a storage step of an operation fails, the operation stops there:
\* the statements issued are an initial part of the method's statements ending
\* with the failed one (none issued twice, none after it), only the statements
\* before it have taken effect, and the caller receives the storage failure.
C12_FailureStopsAndPropagates ==
    [][pc'[1] = "failed" =>
         LET q == issued'[1]
             done == SubSeq(q, 1, Len(q) - 1)
         IN  /\ ret'[1] = StorageFailure
             /\ q # <<>>
             /\ Len(q) <= Len(Listing(op'[1]))
             /\ q = SubSeq(Listing(op'[1]), 1, Len(q))
             /\ nextItemId' - nextItemId = CountOf(done, {"upsert_insert", "add_insert"})
             /\ Cardinality(foods') - Cardinality(foods) = CountOf(done, {"create_insert"})
             /\ (CountOf(done, {"upsert_header", "add_header"}) = 0) => meals' = meals
             /\ (CountOf(done, {"create_mappings"}) = 0) => food_nutrients' = food_nutrients]_vars

\* An upsert of [A] whose insert raised: header and delete are committed, the
\* insert was issued once, and the caller has the exception.
C12_Witness ==
    /\ pc[1] = "failed" /\ op[1].kind = "upsert" /\ op[1].list = <<"A">>
    /\ issued[1] = <<"upsert_header", "upsert_delete", "upsert_insert">>
    /\ ret[1] = StorageFailure
    /\ meals # {} /\ items = {}

\* The dates of a user's meal headers within a range.
DatesOf(ms, u, s, e) == {m.log_date : m \in {x \in ms : x.user_id = u /\ x.log_date >= s /\ x.log_date <= e}}

CoreNutrients == {"calcium", "iron", "folicAcid", "protein"}
TriNutrients == {"vitaminD", "omega3", "fiber"}

\* The meals of a returned list of days.
MealsIn(days) ==
    {days[k].meals[a] : k \in 1..Len(days), a \in {"breakfast", "snack1", "lunch", "snack2", "dinner"}}
      \ {None}

\* C14: in every meal returned by get_meals_by_date_range each nutrient flag is
\* true iff one of the meal's items has the flag definitely true; the flags of
\* vitamin D, omega-3 and fiber are never unknown, and are false when every
\* item is unknown or false or the meal has no items.
C14_MealFlagsAreOrOfItems ==
    (pc[1] = "done" /\ op[1].kind = "range") =>
        \A m \in MealsIn(ret[1]) :
            /\ \A n \in CoreNutrients :
                  m.containsMicronutrients[n]
                    = (\E k \in 1..Len(m.items) : m.items[k].containsMicronutrients[n] = TRUE)
            /\ \A n \in TriNutrients :
                  /\ m.containsMicronutrients[n] \in {TriTrue, TriFalse}
                  /\ (m.containsMicronutrients[n] = TriTrue)
                       = (\E k \in 1..Len(m.items) : m.items[k].containsMicronutrients[n] = TriTrue)

\* A read has returned a meal whose items are all unknown for vitamin D, with
\* the meal's flag false.
C14_Witness ==
    /\ pc[1] = "done" /\ op[1].kind = "range"
    /\ \E m \in MealsIn(ret[1]) :
          /\ m.items # <<>>
          /\ \A k \in 1..Len(m.items) : m.items[k].containsMicronutrients.vitaminD = TriNone
          /\ m.containsMicronutrients.vitaminD = TriFalse

\* The slot keys in their fixed order, and a key's place in it.
SlotOrder == <<"breakfast", "snack1", "lunch", "snack2", "dinner">>
Place(a) == CHOOSE k \in 1..Len(SlotOrder) : SlotOrder[k] = a

\* The slot keys of the day dm whose meal has the flag of nutrient n.
Covering(dm, n) == {a \in DOMAIN dm : dm[a] # None /\ dm[a].containsMicronutrients[n] = TRUE}

\* C15: in a day's summary, for each core nutrient, mealsCovered is the list of
\* the slot keys whose meal has the flag, in the fixed slot order without
\* repetition; covered says the list is not empty; status is 'missing' for 0
\* entries, 'moderate' for 1, 'good' for 2 or more.
C15_CoverageAndStatus ==
    (pc[1] = "done" /\ op[1].kind = "summary") =>
        \A n \in CoreNutrients :
            LET st == ret[1][n]
                mc == st.mealsCovered
            IN  /\ {mc[k] : k \in 1..Len(mc)} = Covering(op[1].meals, n)
                /\ \A j \in 1..Len(mc), k \in 1..Len(mc) : j < k => Place(mc[j]) < Place(mc[k])
                /\ st.covered = (Len(mc) > 0)
                /\ (st.status = "missing") = (Len(mc) = 0)
                /\ (st.status = "moderate") = (Len(mc) = 1)
                /\ (st.status = "good") = (Len(mc) >= 2)

\* A summary in which iron is covered by snack1, lunch and dinner ('good'),
\* calcium by lunch alone ('moderate') and protein by none ('missing').
C15_Witness ==
    /\ pc[1] = "done" /\ op[1].kind = "summary"
    /\ ret[1].iron.mealsCovered = <<"snack1", "lunch", "dinner">> /\ ret[1].iron.status = "good"
    /\ ret[1].calcium.mealsCovered = <<"lunch">> /\ ret[1].calcium.status = "moderate"
    /\ ret[1].protein.mealsCovered = <<>> /\ ret[1].protein.status = "missing"

\* The display names of the core nutrients in their fixed order.
DisplayOrder == <<<<"calcium", "Calcium">>, <<"iron", "Iron">>,
                  <<"folicAcid", "Folic Acid">>, <<"protein", "Protein">>>>

\* C16: missingNutrients is the sub-list of Calcium, Iron, Folic Acid, Protein,
\* in that order, of the nutrients whose covered flag is false (whose status is
\* 'missing').
C16_MissingNutrients ==
    (pc[1] = "done" /\ op[1].kind = "summary") =>
        LET uncovered == SelectSeq(DisplayOrder, LAMBDA d : ~ret[1][d[1]].covered)
            nostatus == SelectSeq(DisplayOrder, LAMBDA d : ret[1][d[1]].status = "missing")
        IN  /\ ret[1].missingNutrients = [k \in 1..Len(uncovered) |-> uncovered[k][2]]
            /\ uncovered = nostatus

\* The day of the example: breakfast covers iron only, lunch covers iron and
\* calcium; Folic Acid and Protein are missing.
C16_Witness ==
    /\ pc[1] = "done" /\ op[1].kind = "summary"
    /\ Covering(op[1].meals, "iron") = {"breakfast", "lunch"}
    /\ Covering(op[1].meals, "calcium") = {"lunch"}
    /\ ret[1].missingNutrients = <<"Folic Acid", "Protein">>

\* C17: the day-level hasWarnings is true iff some food item of some meal of
\* the day has hasWarnings, and a food item has hasWarnings iff its food is
\* marked not safe for pregnancy or has a non-empty warning message.
C17_DayHasWarnings ==
    (pc[1] = "done" /\ op[1].kind = "summary") =>
        LET dm == op[1].meals
            its == UNION {{dm[a].items[k] : k \in 1..Len(dm[a].items)} :
                            a \in {b \in DOMAIN dm : dm[b] # None}}
        IN  /\ ret[1].hasWarnings = (\E i \in its : i.hasWarnings = TRUE)
            /\ \A i \in its : \A f \in SeedFoods :
                  f.id = i.id =>
                     i.hasWarnings = (f.is_safe_pregnancy = FALSE
                                      \/ f.warning_message \notin {NULL, ""})

\* A day whose only warning comes from a food that is safe but carries a
\* warning message, next to a food with an empty message and no warning.
C17_Witness ==
    /\ pc[1] = "done" /\ op[1].kind = "summary"
    /\ ret[1].hasWarnings
    /\ op[1].meals.breakfast # None /\ op[1].meals.lunch # None
    /\ \E k \in 1..Len(op[1].meals.breakfast.items) : op[1].meals.breakfast.items[k].id = "A"
    /\ \E k \in 1..Len(op[1].meals.lunch.items) : op[1].meals.lunch.items[k].id = "L"
    /\ op[1].meals.snack1 = None /\ op[1].meals.snack2 = None /\ op[1].meals.dinner = None

\* C18: the food mapper sets calcium, iron, protein iff 'calcium', 'iron',
\* 'protein' are in the nutrient list N, folicAcid iff 'folate' is in N (the
\* name 'folic acid' does not set it), and vitaminD, omega3, fiber are unknown
\* iff N is empty, otherwise the membership of 'vitamin_d', 'dha', 'fiber'.
C18_FoodMapperFlags ==
    (pc[1] = "done" /\ op[1].kind = "map_food_item") =>
        LET N == op[1].nutrients
            c == ret[1].containsMicronutrients
            tri(v, name) == /\ (v = TriNone) = (N = {})
                            /\ N # {} => (v = TriTrue) = (name \in N)
                            /\ v \in {TriNone, TriTrue, TriFalse}
        IN  /\ c.calcium = ("calcium" \in N)
            /\ c.iron = ("iron" \in N)
            /\ c.protein = ("protein" \in N)
            /\ c.folicAcid = ("folate" \in N)
            /\ tri(c.vitaminD, "vitamin_d")
            /\ tri(c.omega3, "dha")
            /\ tri(c.fiber, "fiber")

\* The mapper was given the list ['folic acid', 'dha']: folicAcid is false,
\* omega3 is true, vitamin D and fiber are false rather than unknown.
C18_Witness ==
    /\ pc[1] = "done" /\ op[1].kind = "map_food_item"
    /\ op[1].nutrients = {"folic acid", "dha"}
    /\ ret[1].containsMicronutrients.folicAcid = FALSE
    /\ ret[1].containsMicronutrients.omega3 = TriTrue
    /\ ret[1].containsMicronutrients.vitaminD = TriFalse
    /\ ret[1].containsMicronutrients.fiber = TriFalse

\* The food items in what a read returned.
FoodsIn(o, v) ==
    CASE o.kind = "food_by_id" -> IF v = None THEN {} ELSE {v}
      [] o.kind \in {"all_foods", "search"} -> {v[k] : k \in 1..Len(v)}
      [] o.kind = "range" -> UNION {{m.items[k] : k \in 1..Len(m.items)} : m \in MealsIn(v)}

FoodReads == {"food_by_id", "all_foods", "search", "range"}

\* C19: a food returned by a read that ran the nutrient lookup has vitamin D,
\* omega-3 and fiber true or false, never unknown; unknown appears only where
\* no lookup was performed.
C19_LookedUpIsNeverUnknown ==
    (pc[1] = "done" /\ op[1].kind \in FoodReads) =>
        \A f \in FoodsIn(op[1], ret[1]) :
            "nutrient_lookup" \in {issued[1][k] : k \in DOMAIN issued[1]} =>
                \A n \in TriNutrients : f.containsMicronutrients[n] # TriNone

\* C20: get_all_foods, search_foods and get_meals_by_date_range issue exactly
\* one nutrient query when they have one or more food ids and none when they
\* have no food id, and _get_food_nutrients_map gives each food id exactly the
\* names of its nutrients marked present (the empty map for no ids).
C20_LookupIsBatched ==
    /\ (pc[1] = "done" /\ op[1].kind \in {"all_foods", "search", "range"}) =>
          LET ids == {f.id : f \in FoodsIn(op[1], ret[1])}
              n == CountOf(issued[1], {"nutrient_lookup"})
          IN  /\ n = (IF ids = {} THEN 0 ELSE 1)
              /\ Len(issued[1]) = 1 + n
              /\ issued[1][1] = op[1].kind
    /\ (pc[1] = "done" /\ op[1].kind = "nutrients_map") =>
          /\ issued[1] = (IF op[1].food_ids = {} THEN <<>> ELSE <<"nutrient_lookup">>)
          /\ DOMAIN ret[1] \subseteq op[1].food_ids
          /\ \A f \in op[1].food_ids :
                (IF f \in DOMAIN ret[1] THEN ret[1][f] ELSE {})
                  = {r.name : r \in {x \in food_nutrients : x.food_id = f /\ x.is_present = TRUE}}

\* get_all_foods has returned six foods after one select and one nutrient
\* query.
C20_Witness ==
    /\ pc[1] = "done" /\ op[1].kind = "all_foods"
    /\ Len(ret[1]) = 6
    /\ issued[1] = <<"all_foods", "nutrient_lookup">>

\* The initial parts of a list.
Prefixes(L) == {SubSeq(L, 1, k) : k \in 0..Len(L)}

KnownLabels == {"Breakfast", "Snack 1", "Lunch", "Snack 2", "Dinner"}
BreakfastBound(ms, u, d) ==
    {m \in ms : /\ m.user_id = u /\ m.log_date = d
                /\ (m.meal_type = "Breakfast" \/ m.meal_type \notin KnownLabels)}

\* The food ids of a stored meal by sort index, and of a set of meals taken in
\* the order of their labels.
ItemList(its, mid) ==
    [k \in 1..Cardinality(ItemsOf(its, mid)) |->
        (CHOOSE i \in ItemsOf(its, mid) : i.sort_order = k - 1).food_id]

RECURSIVE ItemsByLabel(_, _)
ItemsByLabel(B, its) ==
    IF B = {} THEN <<>>
    ELSE LET h == CHOOSE x \in B : \A y \in B : TypeRank(x.meal_type) <= TypeRank(y.meal_type)
         IN  ItemList(its, h.id) \o ItemsByLabel(B \ {h}, its)

\* The nutrients table's name of each of the four summary nutrients.
StoredName(n) == IF n = "folicAcid" THEN "folate" ELSE n

\* C22: a read that meets stored meals with a slot-type label other than the
\* five known ones returns normally and puts them in the breakfast place: the
\* meal whose row came first keeps its id, type and notes, the items of the
\* others are appended to its items, and the nutrients of all of them count as
\* breakfast in the day's summary.
C22_UnknownLabelFallsToBreakfast ==
    (pc[1] = "done" /\ op[1].kind = "range") =>
        LET B == BreakfastBound(meals, op[1].user, 1)
            day == ret[1][1]
            m == day.meals.breakfast
            list == ItemsByLabel(B, items)
        IN  /\ B # {} =>
                 /\ ret[1] # <<>>
                 /\ m # None
                 /\ \E h \in B :
                       /\ \A g \in B : TypeRank(h.meal_type) <= TypeRank(g.meal_type)
                       /\ m.id = h.id /\ m.type = h.meal_type /\ m.notes = h.notes
                 /\ FoodIdsOf(m) = list
                 /\ \A n \in CoreNutrients :
                       /\ (m.containsMicronutrients[n] = TRUE) <=>
                             \E k \in 1..Len(list) :
                                [food_id |-> list[k], name |-> StoredName(n), is_present |-> TRUE]
                                   \in food_nutrients
                       /\ (m.containsMicronutrients[n] = TRUE) <=>
                             \E k \in 1..Len(day.dailySummary[n].mealsCovered) :
                                day.dailySummary[n].mealsCovered[k] = "breakfast"
            /\ (ret[1] # <<>> /\ B = {}) => m = None
            /\ ret[1] # <<>> => day.meals.dinner = None

\* A day with a Breakfast meal of Oatmeal and a "Brunch" meal of Lentil Soup has
\* been read: the breakfast place holds the Breakfast meal with both items, and
\* protein is covered by breakfast.
C22_Witness ==
    /\ pc[1] = "done" /\ op[1].kind = "range"
    /\ \E a \in meals, b \in meals :
          /\ a.meal_type = "Breakfast" /\ b.meal_type = "Brunch"
          /\ ret[1][1].meals.breakfast.id = a.id
          /\ ret[1][1].meals.breakfast.type = "Breakfast"
    /\ FoodIdsOf(ret[1][1].meals.breakfast) = <<"A", "L">>
    /\ ret[1][1].dailySummary.protein.mealsCovered = <<"breakfast">>

\* C23: a returned upsert_meal, add_meal_item, remove_meal_item or delete_meal
\* leaves every meal other than its target with the same header row and the
\* same item rows, and upsert_meal and add_meal_item leave the notes of their
\* target as they were.
C23_OtherSlotsAndNotesUntouched ==
    [][(pc'[1] = "done" /\ op'[1].kind \in {"upsert", "add", "remove", "delete"}) =>
         LET target == TargetMeals(meals, op'[1])
         IN  /\ \A m \in meals \ target :
                   /\ m \in meals'
                   /\ ItemsOf(items', m.id) = ItemsOf(items, m.id)
             /\ op'[1].kind \in {"upsert", "add"} =>
                   \A m \in target : \E h \in meals' : h.id = m.id /\ h.notes = m.notes]_vars

\* An upsert on the Breakfast slot, whose row has notes, has returned with a new
\* day of week and a new list while the Lunch slot holds an item.
C23_Witness ==
    /\ pc[1] = "done" /\ op[1].kind = "upsert" /\ op[1].mtype = "Breakfast"
    /\ op[1].dow = "Tue" /\ op[1].list = <<"B">>
    /\ \E h \in meals : h.id = 1 /\ h.day_of_week = "Tue" /\ h.notes = "after the walk"
    /\ \E g \in meals : g.meal_type = "Lunch" /\ ItemsOf(items, g.id) # {}

\* C24: get_meals_by_date_range changes no stored row, and a call with the
\* same arguments on the rows it has just read (no write in between) returns
\* the same days, slots, item order and summaries.
C24_ReadIsPureAndRepeatable ==
    [][(pc[1] \in Returned /\ pc'[1] = "done" /\ op'[1].kind = "range" /\ pc'[2] = pc[2]) =>
         /\ <<meals', items', foods', food_nutrients'>> = <<meals, items, foods, food_nutrients>>
         /\ GetMealsByDateRange(meals', items', foods', food_nutrients',
                                op'[1].user, op'[1].start, op'[1].stop) = {ret'[1]}]_vars

\* C25: a call that asks for a connection while the pool has none free fails
\* in that step with the pool's error as its outcome; it has run no query, the
\* pool is as it was, and the call has handed no connection back.
C25_ExhaustedPoolFailsAtOnce ==
    [][\A p \in Procs :
          (pc[p] \in Returned /\ pc'[p] # pc[p] /\ pool.used = MaxConn) =>
             /\ pc'[p] = "failed"
             /\ ret'[p] = PoolError
             /\ issued'[p] = <<>>
             /\ loc'[p].conn = FALSE /\ loc'[p].puts = 0
             /\ pool' = pool]_vars

\* A call has failed with the pool's error while twenty connections were out,
\* one of them held by the other caller's query.
C25_Witness ==
    /\ pc[1] = "failed" /\ ret[1] = PoolError /\ issued[1] = <<>>
    /\ pool.used = MaxConn /\ pool.others = MaxConn - 1
    /\ pc[2] = "execute"

\* C26: a call of execute_query or execute_transaction that obtained a
\* connection has handed it back exactly once when it ends, whatever path it
\* took; the connections out never exceed twenty, and none is out when no call
\* is in progress.
C26_ConnectionsAlwaysReturned ==
    /\ pool.used <= MaxConn
    /\ \A p \in Procs :
          (pc[p] \in {"done", "failed"} /\ op[p].kind \in {"execute_query", "execute_transaction"}
             /\ loc[p].conn) => loc[p].puts = 1
    /\ ((\A p \in Procs : pc[p] \in Returned) /\ pool.others = 0) => pool.used = 0

\* The item rows of meal mid that hold food f.
Occurrences(its, mid, f) == {i \in its : i.meal_id = mid /\ i.food_id = f}

\* C27: a returned remove_meal_item(meal, food) on a meal that holds the food
\* removes one item row: one occurrence fewer of the food remains, so of two
\* occurrences one is left.
C27_RemoveTakesOneOccurrence ==
    [][Returns("remove") =>
         LET had == Occurrences(items, op'[1].meal_id, op'[1].list[1])
             has == Occurrences(items', op'[1].meal_id, op'[1].list[1])
         IN  had # {} => Cardinality(has) = Cardinality(had) - 1]_vars

\* C28: the Food value create_food returned equals the value get_food_by_id
\* returns for the new id in the call that follows, flags included.
C28_CreatedFoodReadsBackEqual ==
    [][(/\ pc[1] = "done" /\ op[1].kind = "create"
        /\ pc'[1] = "done" /\ op'[1].kind = "food_by_id"
        /\ op'[1].food_id = ret[1].id)
       => ret'[1] = ret[1]]_vars

\* The stored greetings of user u for today.
Greetings(u) ==
    {m \in chat_messages : /\ m.user_id = u /\ m.message_date = Today
                           /\ m.role = "system" /\ m.is_greeting}

\* C29: at most one greeting is stored per user and day, and once a request
\* for a user has returned there is exactly one, which is what the request
\* returned.
C29_OneGreetingPerUserAndDay ==
    /\ \A u \in GreetUsers : Cardinality(Greetings(u)) <= 1
    /\ \A p \in Procs :
          (pc[p] = "done" /\ op[p].kind \in {"greeting_endpoint", "get_or_create"}) =>
             Greetings(op[p].user) = {ret[p]}

\* C30: there is never more than one daily_logs row per (user, date); and
\* when the sleep call and the symptoms call of the day have both ended, the
\* one row holds the sleep values of the last sleep call together with the
\* symptom values of the last symptoms call.
C30_OneRowWithLatestOfBoth ==
    /\ \A r \in daily_logs : LogsOf(daily_logs, r.user_id, r.log_date) = {r}
    /\ (/\ pc[1] \in {"done", "failed"} /\ pc[2] \in {"done", "failed"}
        /\ op[1].kind = "log_sleep" /\ Valid(op[1])
        /\ op[2].kind = "log_symptoms" /\ Valid(op[2]))
       => \E r \in daily_logs :
             /\ r.user_id = "u1" /\ r.log_date = 1
             /\ r.sleep = [hours |-> op[1].sleep_hours, quality |-> op[1].sleep_quality]
             /\ r.symptoms = [list |-> Normalized(op[2].symptoms),
                              severity |-> op[2].symptom_severity]

====
